---- MODULE Spec2Model ----
(***************************************************************************)
(* State-machine model of the XMPP channel plugin's OMEMO subsystem: the   *)
(* outbound send paths (deliverReply, sendXmppMessage, sendXmppMedia), the *)
(* fan-out encryptors, the Signal protocol store with its file             *)
(* persistence, and the concurrent inbound stanza handlers.                *)
(*                                                                         *)
(* One account is modelled.  Three specifications share the variables:     *)
(*   SpecSend  - outbound paths and fan-out (send actions are atomic)      *)
(*   SpecStore - OmemoStore mutations and persistence                      *)
(*   SpecConc  - interleaving of async stanza handlers and replies         *)
(***************************************************************************)
EXTENDS Integers, Sequences, FiniteSets, TLC

\* ------------------------------------------------------------------ bounds
MaxOwnDev == 2         \* device ids of the own account are 1..MaxOwnDev
MaxPeerDev == 1        \* device ids of the peer account are 1..MaxPeerDev

OwnDevIds == 1..MaxOwnDev
PeerDevIds == 1..MaxPeerDev
DevIds == OwnDevIds \cup PeerDevIds

\* ------------------------------------------------------------ name spaces
SelfJid == "bot@srv"               \* config.jid (store.getSelfJid())
PeerJid == "alice@srv"
RoomJid == "room@conference.srv"   \* the configured group (config.groups)
Jids == {SelfJid, PeerJid}
SelfAlias == ""                    \* getDeviceList(accountId, "") = own list
CacheKeys == {PeerJid, SelfAlias, SelfJid}  \* keys of the device cache in play
DevIdsOf(jid) == IF jid = PeerJid THEN PeerDevIds ELSE OwnDevIds
Pairs == ({SelfJid} \X OwnDevIds) \cup ({PeerJid} \X PeerDevIds)   \* session keys

MucNick == "bot"                   \* our nickname in the room
PeerNick == "al"
PeerNick2 == "al-phone"            \* the peer's second client in the room
Nicks == {MucNick, PeerNick, PeerNick2}
SendNicks == {MucNick, PeerNick}   \* the occupants of the send scenarios
NickOrder == <<MucNick, PeerNick, PeerNick2>>

Text == "secret text"              \* the outbound text of a reply / send
Caption == "caption text"
MediaUrl == "https://files/orig"
UploadedUrl == "https://upload/slot"
Plaintexts == {Text, Caption, MediaUrl, UploadedUrl}

FallbackBody == "I sent you an OMEMO encrypted message but your client doesn't seem to support that."
WarnEmptyBody == "Failed to encrypt (OMEMO encryption returned empty). Message not sent for security."
WarnErrorBody == "Failed to encrypt: <error>. Message not sent for security."
WarnBodies == {WarnEmptyBody, WarnErrorBody}

NoEntry == [devices |-> {}, timestamp |-> -1]   \* deviceCache.get(key) === undefined
NoElement == [kind |-> "none", sid |-> 0, keys |-> {}, payload |-> ""]

Outcomes == {"ok", "fail"}

\* --------------------------------------------------------------- variables
VARIABLES
    now,            \* Date.now()
    activeClient,   \* activeClients.has(accountId)
    omemoInit,      \* the online handler's call of initializeOmemo: pending, done, failed, stopped
    omemoEnabled,   \* omemoStores.has(accountId) /\ omemoEnabled.has(accountId)
    deviceId,       \* OmemoStore.deviceId (0 before a store exists; kept after shutdown)
    sessions,       \* keys of OmemoStore.sessions, as (jid, device) pairs
    deviceCache,    \* deviceCache: cache key -> entry
    room,           \* roomStates entry of RoomJid for the account
    produced,       \* history: encrypted elements returned during the last operation
    sent,           \* history: stanzas handed to xmpp.send during the last operation
    lastOp,         \* history: what the last operation was asked to do
    preKeys,        \* ids of OmemoStore.preKeys
    persisted,      \* the account's record in the snapshot file
    consumed,       \* history: successful pre-key decryptions per pre-key id
    lastStoreOp,    \* history: the last store operation and what it reported
    serverDevices,  \* ids in the account's device-list node on the server
    serverBundle,   \* the bundle node of the local device on the server
    tasks,          \* async handlers and encryptions in progress, by start order
    handedOff,      \* history: inbound stanzas in the order they reached the agent
    lastPush,       \* history: the last device-list notification handled
    lastRead,       \* history: the last read of the device cache and its answer
    stopped,        \* reconnectStates.get(accountId).aborted: the account was stopped
    pendingMucJoins,\* pendingMucJoins: room -> the waiter registered for it
    joinOutcome,    \* history: how each room's join wait ended
    joinedRooms,    \* joinedRooms.get(accountId)
    lastJids,       \* history: the last getRoomOccupantJids call and its answer
    lastRoomEvent,  \* history: what the last change of the room state was for
    store,          \* the OmemoStore object: key material, identities, session records
    storeData,      \* the account's OmemoStoreData in the snapshot file
    lastDataOp,     \* history: the last operation on the store object and its answer
    lastFan,        \* history: the last key fan-out, what it met and what it returned
    fileAccounts,   \* the snapshot file: account id -> the snapshot recorded for it
    acctStores,     \* omemoStores: the accounts that have a store
    acctCache,      \* keys of deviceCache, over all accounts
    acctRooms,      \* keys of roomStates, over all accounts
    lastAcctOp,     \* history: the account the last operation was for
    reconnectState, \* reconnectStates.get(accountId)
    connection,     \* where the connection stands: "idle", "online", "waiting", "down"
    timerDelay,     \* the delay of the reconnect timer that is pending
    series,         \* history: reconnect attempts scheduled since the last time online
    listeners,      \* calls of startXmppConnection that added their abort listener
    abortFired,     \* the account's abort signal has fired
    lastStart,      \* history: how the latest xmpp.start() ended: "none", "ok", "failed"
    queries,        \* calls of sendIq: where each stands, its listener, timer and promise
    iqTime          \* the clock the response timers run on, in ms

varsShared == <<omemoEnabled, deviceId, sessions>>
varsSend == <<now, activeClient, omemoInit, deviceCache, room, produced, sent, lastOp>>
varsStore == <<preKeys, persisted, consumed, lastStoreOp, serverDevices, serverBundle>>
varsConc == <<tasks, handedOff>>
varsCache == <<lastPush, lastRead>>
varsJoin == <<stopped, pendingMucJoins, joinOutcome, joinedRooms>>
varsRoom == <<lastJids, lastRoomEvent>>
varsData == <<store, storeData, lastDataOp>>
varsFan == <<lastFan>>
varsAcct == <<fileAccounts, acctStores, acctCache, acctRooms, lastAcctOp>>
varsRecon == <<reconnectState, connection, timerDelay, series, listeners, abortFired, lastStart>>
varsIq == <<queries, iqTime>>

vars == <<varsShared, varsSend, varsStore, varsConc, varsCache, varsJoin, varsRoom, varsData, varsFan, varsAcct, varsRecon, varsIq>>

\* what the actions of one specification leave alone
OutsideSend == <<varsStore, varsConc, varsCache, varsJoin, varsRoom, varsData, varsFan, varsAcct, varsRecon, varsIq>>
OutsideStore == <<varsSend, varsConc, varsCache, varsJoin, varsRoom, varsData, varsFan, varsAcct, varsRecon, varsIq>>
OutsideConc == <<varsSend, varsStore, varsCache, varsJoin, varsRoom, varsData, varsFan, varsAcct, varsRecon, varsIq>>

\* ============================================================ device cache
CACHE_TTL_MS == 5 * 60 * 1000
CACHE_MAX_AGE_MS == 15 * 60 * 1000     \* declared, read by no function

cacheKey(jid) == jid     \* JIDs of the model are bare already

\* ablation of getCachedDevices: an entry never expires
getCachedDevicesNoExpiry(cache, jid) ==
    IF cache[cacheKey(jid)] = NoEntry THEN [hit |-> FALSE, devices |-> {}]
    ELSE [hit |-> TRUE, devices |-> cache[cacheKey(jid)].devices]

getCachedDevices(cache, jid) ==
    LET entry == cache[cacheKey(jid)] IN
    IF entry = NoEntry THEN [hit |-> FALSE, devices |-> {}]
    ELSE IF now - entry.timestamp > CACHE_TTL_MS THEN [hit |-> FALSE, devices |-> {}]
    ELSE [hit |-> TRUE, devices |-> entry.devices]

setCachedDevices(cache, jid, devices) ==
    [cache EXCEPT ![cacheKey(jid)] = [devices |-> devices, timestamp |-> now]]

\* fetchDeviceList: the published list, and the empty list when the query
\* fails, has no item or throws
fetchDeviceList(published, fetchOk) == IF fetchOk THEN published ELSE {}

\* fetched: what fetchDeviceList returns on this call ({} on any failure)
getDeviceList(cache, jid, forceRefresh, fetched) ==
    LET cached == getCachedDevices(cache, jid) IN
    IF ~forceRefresh /\ cached.hit
    THEN [devices |-> cached.devices, cache |-> cache]
    ELSE [devices |-> fetched, cache |-> setCachedDevices(cache, jid, fetched)]

clearDeviceCache(cache) == [k \in CacheKeys |-> NoEntry]

\* handleDeviceListPepEvent for one item: other nodes and lists that parse
\* to no device leave the cache alone
handleDeviceListPepEvent(cache, from, isDeviceNode, devices) ==
    IF isDeviceNode /\ devices # {} THEN setCachedDevices(cache, from, devices) ELSE cache

\* getDeviceCacheStats: every entry of the map is counted
getDeviceCacheStats(cache) == Cardinality({k \in CacheKeys : cache[k] # NoEntry})

\* The answers the server can give to the device-list fetches of one call:
\* a cached, fresh list is not fetched at all.
FetchEnv(keys) ==
    {f \in [CacheKeys -> SUBSET DevIds] :
        \A k \in CacheKeys :
            IF k \in keys /\ ~getCachedDevices(deviceCache, k).hit
            THEN f[k] \subseteq DevIdsOf(k)
            ELSE f[k] = getCachedDevices(deviceCache, k).devices}

\* ============================================================ MUC occupants
\* occupants[nick] is "absent" (no entry), "nojid" (entry without realJid)
\* or the occupant's real bare JID.
NoRoom == [exists |-> FALSE, anonymity |-> "unknown", selfNick |-> "",
           occupants |-> [n \in Nicks |-> "absent"]]

RealJidOf(nick) == IF nick = MucNick THEN SelfJid ELSE PeerJid

\* the jid attribute of an occupant's item: the real JID with its resource
ItemJidOf(nick) == [bare |-> RealJidOf(nick), resource |-> nick]

\* jid.split("/")[0]
bareJid(jid) == jid.bare

getOrCreateRoom(r) == IF r.exists THEN r ELSE [NoRoom EXCEPT !.exists = TRUE]

handleMucPresence(r, nick, nonAnon, self, unavailable, item) ==
    LET r0 == getOrCreateRoom(r)
        r1 == IF nonAnon THEN [r0 EXCEPT !.anonymity = "non-anonymous"] ELSE r0
        r2 == IF self THEN [r1 EXCEPT !.selfNick = nick] ELSE r1
    IN  IF unavailable THEN [r2 EXCEPT !.occupants[nick] = "absent"]
        ELSE IF item = "none" THEN r2
        ELSE IF item = "jid"
             THEN [r2 EXCEPT !.occupants[nick] = bareJid(ItemJidOf(nick))]
        ELSE [r2 EXCEPT !.occupants[nick] = "nojid"]

ElementsOf(seq) == {seq[i] : i \in 1..Len(seq)}

pushAlways(jids, jid) == Append(jids, jid)

\* if (!jids.includes(occupant.realJid)) jids.push(occupant.realJid)
pushIfNew(jids, jid) == IF jid \in ElementsOf(jids) THEN jids ELSE Append(jids, jid)

\* the loop over room.occupants.values(), from the i-th occupant on; the
\* occupants are visited in NickOrder
RECURSIVE collectRealJids(_, _, _, _)
collectRealJids(r, excludeSelf, i, jids) ==
    IF i > Len(NickOrder) THEN jids
    ELSE LET n == NickOrder[i] IN
         IF r.occupants[n] \notin Jids THEN collectRealJids(r, excludeSelf, i + 1, jids)
         ELSE IF excludeSelf /\ n = r.selfNick
         THEN collectRealJids(r, excludeSelf, i + 1, jids)
         ELSE collectRealJids(r, excludeSelf, i + 1, pushIfNew(jids, r.occupants[n]))

NullJids == [null |-> TRUE, jids |-> <<>>]

\* null, or the array of real JIDs
getRoomOccupantJids(r, excludeSelf) ==
    IF ~r.exists THEN NullJids
    ELSE IF r.anonymity # "non-anonymous" THEN NullJids
    ELSE LET jids == collectRealJids(r, excludeSelf, 1, <<>>)
         IN  IF Len(jids) > 0 THEN [null |-> FALSE, jids |-> jids] ELSE NullJids

isRoomOmemoCapable(r) ==
    /\ r.exists
    /\ r.anonymity = "non-anonymous"
    /\ \E n \in Nicks : r.occupants[n] # "absent"

getOccupantRealJid(r, nick) ==
    IF ~r.exists THEN "null"
    ELSE IF r.occupants[nick] \in Jids THEN r.occupants[nick] ELSE "null"

\* ================================================================= fan-out
\* outcome is what the network and the Signal library do for one device:
\*   "ok"   - the bundle (if there is no session) is fetched, the session is
\*            built and the message key is encrypted
\*   "fail" - without a session fetchBundle returns null or processPreKey
\*            throws; with a session cipher.encrypt throws
encryptKeyForDeviceNoSkip(sess, targetJid, dev, outcome) ==
    [key |-> TRUE, sessions |-> sess \cup {<<targetJid, dev>>}]

encryptKeyForDevice(sess, targetJid, dev, outcome) ==
    LET p == <<targetJid, dev>> IN
    IF p \notin sess
    THEN IF outcome = "fail" THEN [key |-> FALSE, sessions |-> sess]
         ELSE [key |-> TRUE, sessions |-> sess \cup {p}]
    ELSE [key |-> outcome = "ok", sessions |-> sess]

\* The key elements of one fan-out over the device sets of some JIDs.  The
\* outcome of a pair is the same each time the pair is visited in one call,
\* so the loop order does not change the result.
KeysFor(sess, side, jid, devices, o) ==
    {[side |-> side, rid |-> d] :
        d \in {e \in devices : encryptKeyForDevice(sess, jid, e, o[<<jid, e>>]).key}}

SessionsAfter(sess, targets, o) ==
    UNION ({sess} \cup
           {encryptKeyForDevice(sess, p[1], p[2], o[p]).sessions : p \in targets})

Element(kind, keys, text) ==
    [kind |-> kind, sid |-> deviceId, keys |-> keys, payload |-> text]

\* ablation of otherOwnDevices: the local device is not filtered out
otherOwnDevicesUnfiltered(ownDevices) == ownDevices

\* ownDevices.filter(d => d.id !== ourDeviceId)
otherOwnDevices(ownDevices) == ownDevices \ {deviceId}

encryptOmemoMessage(cache, sess, recipientJid, plaintext, f, o) ==
    IF ~omemoEnabled THEN [element |-> NoElement, cache |-> cache, sessions |-> sess]
    ELSE
    LET r1 == getDeviceList(cache, recipientJid, FALSE, f[recipientJid])
        devices == r1.devices
    IN  IF devices = {}
        THEN [element |-> NoElement, cache |-> r1.cache, sessions |-> sess]
        ELSE
        LET r2 == getDeviceList(r1.cache, SelfAlias, FALSE, f[SelfAlias])
            others == otherOwnDevices(r2.devices)
            targets == ({recipientJid} \X devices) \cup ({SelfJid} \X others)
            keys == KeysFor(sess, "rcpt", recipientJid, devices, o)
                    \cup KeysFor(sess, "own", SelfJid, others, o)
            sess2 == SessionsAfter(sess, targets, o)
        IN  IF keys = {}
            THEN [element |-> NoElement, cache |-> r2.cache, sessions |-> sess2]
            ELSE [element |-> Element("direct", keys, plaintext),
                  cache |-> r2.cache, sessions |-> sess2]

\* getDeviceList for each occupant JID in turn
RECURSIVE OccupantLists(_, _, _)
OccupantLists(cache, jids, f) ==
    IF jids = {} THEN [cache |-> cache, targets |-> {}]
    ELSE LET j == CHOOSE x \in jids : TRUE
             r == getDeviceList(cache, j, FALSE, f[j])
             rest == OccupantLists(r.cache, jids \ {j}, f)
         IN  [cache |-> rest.cache, targets |-> ({j} \X r.devices) \cup rest.targets]

encryptMucOmemoMessage(cache, sess, r, plaintext, f, o) ==
    IF ~omemoEnabled THEN [element |-> NoElement, cache |-> cache, sessions |-> sess]
    ELSE IF ~isRoomOmemoCapable(r)
    THEN [element |-> NoElement, cache |-> cache, sessions |-> sess]
    ELSE
    LET occupantJids == ElementsOf(getRoomOccupantJids(r, TRUE).jids) IN
    IF occupantJids = {}
    THEN [element |-> NoElement, cache |-> cache, sessions |-> sess]
    ELSE
    LET occ == OccupantLists(cache, occupantJids, f) IN
    IF occ.targets = {}
    THEN [element |-> NoElement, cache |-> occ.cache, sessions |-> sess]
    ELSE
    LET r2 == getDeviceList(occ.cache, SelfAlias, FALSE, f[SelfAlias])
        ownDevicesToEncrypt == r2.devices
        targets == occ.targets \cup ({SelfJid} \X ownDevicesToEncrypt)
        keys == UNION {KeysFor(sess, "rcpt", j, {p[2] : p \in {q \in occ.targets : q[1] = j}}, o)
                        : j \in occupantJids}
                \cup KeysFor(sess, "own", SelfJid, ownDevicesToEncrypt, o)
        sess2 == SessionsAfter(sess, targets, o)
    IN  IF keys = {}
        THEN [element |-> NoElement, cache |-> r2.cache, sessions |-> sess2]
        ELSE [element |-> Element("room", keys, plaintext),
              cache |-> r2.cache, sessions |-> sess2]

\* what the network and the library may do for the devices one call touches
\* (keys: the device lists the call reads)
OutcomeEnv(sess, f, keys) ==
    {o \in [Pairs -> Outcomes] :
        \A p \in Pairs :
            /\ (~(p[1] \in keys /\ p[2] \in f[p[1]])
                /\ ~(p[1] = SelfJid /\ SelfAlias \in keys /\ p[2] \in f[SelfAlias])
                    => o[p] = "ok")}

\* ================================================================= stanzas
MsgType(to) == IF to = RoomJid THEN "groupchat" ELSE "chat"

Stanza(to, type, body, encrypted, oob, chatState) ==
    [to |-> to, type |-> type, body |-> body, encrypted |-> encrypted,
     oob |-> oob, chatState |-> chatState]

buildOmemoMessageStanza(to, element, type) ==
    Stanza(to, type, FallbackBody, element, "", "")

BodyStanza(to, type, body) == Stanza(to, type, body, NoElement, "", "")

sendChatState(to, state) ==
    IF activeClient THEN <<Stanza(to, MsgType(to), "", NoElement, "", state)>> ELSE <<>>

\* The result of an outbound operation: the stanzas that went out, the
\* encrypted elements the encryptors returned, and the new cache/sessions.
Result(s, p, cache, sess) ==
    [sent |-> s, produced |-> p, cache |-> cache, sessions |-> sess]

\* try { encrypt; send encrypted | send warning } catch { send warning }
\* sendOk = FALSE: xmpp.send of the encrypted stanza throws
EncryptedOrWarning(to, type, enc, sendOk) ==
    IF enc.element # NoElement
    THEN Result(IF sendOk THEN <<buildOmemoMessageStanza(to, enc.element, type)>>
                ELSE <<BodyStanza(to, type, WarnErrorBody)>>,
                <<enc.element>>, enc.cache, enc.sessions)
    ELSE Result(<<BodyStanza(to, type, WarnEmptyBody)>>, <<>>, enc.cache, enc.sessions)

Wrap(pre, r, post) == [r EXCEPT !.sent = pre \o r.sent \o post]

\* ------------------------------------------------ inbound.ts: deliverReply
\* text-only reply (no media URLs in the payload)
deliverReplyText(isGroup, sender, textToSend, f, o, sendOk) ==
    LET replyTo == IF isGroup THEN RoomJid ELSE sender
        msgType == IF isGroup THEN "groupchat" ELSE "chat"
        composing == sendChatState(replyTo, "composing")
        active == sendChatState(replyTo, "active")
        shouldEncryptDm == ~isGroup /\ omemoEnabled
        shouldEncryptMuc == isGroup /\ omemoEnabled /\ isRoomOmemoCapable(room)
    IN  IF ~activeClient THEN Result(<<>>, <<>>, deviceCache, sessions)
        ELSE IF textToSend = ""
        THEN Result(composing \o active, <<>>, deviceCache, sessions)
        ELSE IF shouldEncryptDm
        THEN Wrap(composing,
                  EncryptedOrWarning(replyTo, "chat",
                      encryptOmemoMessage(deviceCache, sessions, sender, textToSend, f, o),
                      sendOk),
                  active)
        ELSE IF shouldEncryptMuc
        THEN Wrap(composing,
                  EncryptedOrWarning(replyTo, "groupchat",
                      encryptMucOmemoMessage(deviceCache, sessions, room, textToSend, f, o),
                      sendOk),
                  active)
        ELSE Result(composing
                    \o (IF sendOk THEN <<BodyStanza(replyTo, msgType, textToSend)>> ELSE <<>>)
                    \o active,
                    <<>>, deviceCache, sessions)

\* ---------------------------------- outbound.ts: sendXmppMedia (./outbound.js)
\* upload: "noservice", "fetcherror", "uploaded" or "uploadfailed"
UploadOutcomes == {"noservice", "fetcherror", "uploaded", "uploadfailed"}

ShareUrl(mediaUrl, upload) == IF upload = "uploaded" THEN UploadedUrl ELSE mediaUrl

outboundSendXmppMedia(to, mediaUrl, caption, upload) ==
    IF ~activeClient THEN <<>>
    ELSE IF upload \in {"noservice", "fetcherror"} THEN <<>>
    ELSE (IF caption # "" THEN <<BodyStanza(to, MsgType(to), caption)>> ELSE <<>>)
         \o <<Stanza(to, MsgType(to), ShareUrl(mediaUrl, upload), NoElement,
                     ShareUrl(mediaUrl, upload), "")>>

\* the media loop of deliverReply: the caption goes with the first item only
RECURSIVE MediaLoop(_, _, _, _)
MediaLoop(replyTo, textToSend, uploads, i) ==
    IF i > Len(uploads) THEN <<>>
    ELSE outboundSendXmppMedia(replyTo, MediaUrl,
                               IF i = 1 THEN textToSend ELSE "", uploads[i])
         \o MediaLoop(replyTo, textToSend, uploads, i + 1)

deliverReplyMedia(isGroup, sender, textToSend, uploads) ==
    LET replyTo == IF isGroup THEN RoomJid ELSE sender IN
    IF ~activeClient THEN Result(<<>>, <<>>, deviceCache, sessions)
    ELSE Result(sendChatState(replyTo, "composing")
                \o MediaLoop(replyTo, textToSend, uploads, 1)
                \o sendChatState(replyTo, "active"),
                <<>>, deviceCache, sessions)

\* ------------------------- onboarding.ts (outbound module): sendXmppMessage
sendXmppMessage(to, text, f, o, sendOk) ==
    LET isMuc == to = RoomJid
        msgType == IF isMuc THEN "groupchat" ELSE "chat"
    IN  IF ~activeClient THEN Result(<<>>, <<>>, deviceCache, sessions)
        ELSE IF omemoEnabled
        THEN EncryptedOrWarning(to, msgType,
                 IF isMuc
                 THEN encryptMucOmemoMessage(deviceCache, sessions, room, text, f, o)
                 ELSE encryptOmemoMessage(deviceCache, sessions, to, text, f, o),
                 sendOk)
        ELSE Result(IF sendOk THEN <<BodyStanza(to, msgType, text)>> ELSE <<>>,
                    <<>>, deviceCache, sessions)

\* --------------------------- onboarding.ts (outbound module): sendXmppMedia
encryptFn(cache, sess, to, text, f, o) ==
    IF to = RoomJid
    THEN encryptMucOmemoMessage(cache, sess, room, text, f, o)
    ELSE encryptOmemoMessage(cache, sess, to, text, f, o)

sendXmppMedia(to, mediaUrl, caption, upload, f, o1, o2, sendOk) ==
    LET msgType == MsgType(to)
        shareUrl == ShareUrl(mediaUrl, upload)
        nothing == [element |-> NoElement, cache |-> deviceCache, sessions |-> sessions]
        captionEnc == IF caption # ""
                      THEN encryptFn(deviceCache, sessions, to, caption, f, o1)
                      ELSE nothing
        hasCaptionEnc == captionEnc.element # NoElement
        captionSent == IF hasCaptionEnc
                       THEN <<buildOmemoMessageStanza(to, captionEnc.element, msgType)>>
                       ELSE <<>>
        captionProduced == IF hasCaptionEnc THEN <<captionEnc.element>> ELSE <<>>
        urlEnc == encryptFn(captionEnc.cache, captionEnc.sessions, to, shareUrl, f, o2)
    IN  IF ~activeClient THEN Result(<<>>, <<>>, deviceCache, sessions)
        ELSE IF upload \in {"noservice", "fetcherror"}
        THEN Result(<<>>, <<>>, deviceCache, sessions)
        ELSE IF omemoEnabled
        THEN IF hasCaptionEnc /\ ~sendOk
             THEN Result(<<BodyStanza(to, msgType, WarnErrorBody)>>, captionProduced,
                         captionEnc.cache, captionEnc.sessions)
             ELSE IF urlEnc.element # NoElement
             THEN Result(captionSent
                         \o (IF sendOk
                             THEN <<buildOmemoMessageStanza(to, urlEnc.element, msgType)>>
                             ELSE <<BodyStanza(to, msgType, WarnErrorBody)>>),
                         captionProduced \o <<urlEnc.element>>,
                         urlEnc.cache, urlEnc.sessions)
             ELSE Result(captionSent \o <<BodyStanza(to, msgType, WarnEmptyBody)>>,
                         captionProduced, urlEnc.cache, urlEnc.sessions)
        ELSE Result((IF caption # "" THEN <<BodyStanza(to, msgType, caption)>> ELSE <<>>)
                    \o <<Stanza(to, msgType, shareUrl, NoElement, shareUrl, "")>>,
                    <<>>, deviceCache, sessions)

\* ================================================= values of unused parts
\* Each specification projects the program onto the variables its claims
\* read; the variables of the other parts stay at these values.
WatchIds == {98, 99}               \* the pre-key ids the peers pick from the bundle

NoSnapshot == [exists |-> FALSE, deviceId |-> 0, preKeys |-> {}, sessions |-> {}]
NoBundle == [exists |-> FALSE, preKeys |-> {}]
NoStoreOp == [op |-> "none", mutated |-> FALSE, writeFailed |-> FALSE, reported |-> "none"]
NoTask == [kind |-> "none", pair |-> <<"", 0>>, isGroup |-> FALSE, pc |-> "none",
           resolved |-> TRUE, body |-> "none", fromNick |-> "", delayed |-> FALSE]
Task(kind, pair, isGroup, pc) ==
    [kind |-> kind, pair |-> pair, isGroup |-> isGroup, pc |-> pc, resolved |-> TRUE,
     body |-> "none", fromNick |-> "", delayed |-> FALSE]

MaxTasks == 3          \* handlers / encryptions started in one run
TaskIds == 1..MaxTasks

\* a non-anonymous room in which the peer's presence carried its real JID
RoomWithPeer == handleMucPresence(NoRoom, PeerNick, TRUE, FALSE, FALSE, "jid")

StoreAtRest ==
    /\ preKeys = {}
    /\ persisted = NoSnapshot
    /\ consumed = [k \in WatchIds |-> 0]
    /\ lastStoreOp = NoStoreOp
    /\ serverDevices = {}
    /\ serverBundle = NoBundle

ConcAtRest ==
    /\ tasks = [t \in TaskIds |-> NoTask]
    /\ handedOff = <<>>

NoPush == [seen |-> FALSE, devices |-> {}, at |-> 0]
NoRead == [op |-> "none", forceRefresh |-> FALSE, age |-> -1, fetched |-> FALSE, failed |-> FALSE,
           devices |-> {}, entries |-> 0]

CacheAtRest ==
    /\ lastPush = NoPush
    /\ lastRead = NoRead

InvitedRoomJid == "invited@conference.srv"   \* a room the account is invited to
JoinRooms == {RoomJid, InvitedRoomJid}
NoWaiter == "none"                           \* pendingMucJoins.get(key) === undefined

JoinAtRest ==
    /\ stopped = FALSE
    /\ pendingMucJoins = [r \in JoinRooms |-> NoWaiter]
    /\ joinOutcome = [r \in JoinRooms |-> "none"]
    /\ joinedRooms = {}

\* ---- texts and byte arrays of the store
\* a text is empty, the JSON text of a session ('{...}') or base64; a byte
\* array is its content number, 0 for the array of length 0
EmptyText == [kind |-> "empty", v |-> 0]
MissingText == [kind |-> "missing", v |-> 0]     \* no such property
JsonText(v) == [kind |-> "json", v |-> v]
B64Text(v) == [kind |-> "b64", v |-> v]
Bytes(v) == [v |-> v]
NoBytes == Bytes(0)
GarbageBytes == Bytes(-1)

\* Buffer.from(data).toString("base64")
toBase64(bytes) == IF bytes = NoBytes THEN EmptyText ELSE B64Text(bytes.v)

\* Buffer.from(data, "base64"): characters outside the alphabet are skipped
fromBase64(text) ==
    IF text.kind = "b64" THEN Bytes(text.v)
    ELSE IF text.kind = "json" THEN GarbageBytes
    ELSE NoBytes

\* values of OmemoStore.sessions
AbsentSession == [type |-> "undefined", text |-> EmptyText, bytes |-> NoBytes]
StringSession(text) == [type |-> "string", text |-> text, bytes |-> NoBytes]
BufferSession(bytes) == [type |-> "buffer", text |-> EmptyText, bytes |-> bytes]

DataSessKeys == {"alice@srv.1", "bot@srv.2"}     \* sessionKey(jid, deviceId)
DataPeers == {"alice@srv.1"}                     \* keys of OmemoStore.identities
DataPreKeyIds == {1}

NoStore ==
    [initialized |-> FALSE, deviceId |-> 0, registrationId |-> 0,
     identityKeyPair |-> NoBytes, signedPreKey |-> NoBytes,
     preKeys |-> [k \in DataPreKeyIds |-> NoBytes],
     sessions |-> [k \in DataSessKeys |-> AbsentSession],
     identities |-> [k \in DataPeers |-> NoBytes]]

NoStoreData ==
    [exists |-> FALSE, deviceId |-> 0, registrationId |-> 0,
     identityKeyPair |-> MissingText, signedPreKey |-> MissingText,
     preKeys |-> [k \in DataPreKeyIds |-> MissingText],
     sessions |-> [k \in DataSessKeys |-> MissingText],
     identities |-> [k \in DataPeers |-> MissingText]]

\* what a caller can hand to storeSession
NullRecord == [type |-> "null", text |-> EmptyText, bytes |-> NoBytes]
SessionTexts == {EmptyText, JsonText(1), JsonText(2)}
SessionBytes == {NoBytes, Bytes(1)}
RecordInputs ==
    {NullRecord}
    \cup [type : {"string", "boxed"}, text : SessionTexts, bytes : {NoBytes}]
    \cup [type : {"buffer", "view", "foreign"}, text : {EmptyText}, bytes : SessionBytes]
    \cup [type : {"uncopyable", "other"}, text : {EmptyText}, bytes : {Bytes(1)}]

NoDataOp == [op |-> "none", key |-> "", record |-> NullRecord, loaded |-> NoStoreData,
             before |-> NoStore, answer |-> FALSE, persisted |-> FALSE]

DataAtRest ==
    /\ store = NoStore
    /\ storeData = NoStoreData
    /\ lastDataOp = NoDataOp

Accounts == {"default", "work"}      \* account ids of the configuration
NoAcctOp == [op |-> "none", account |-> ""]

AcctAtRest ==
    /\ fileAccounts = [a \in Accounts |-> "none"]
    /\ acctStores = {}
    /\ acctCache = {}
    /\ acctRooms = {}
    /\ lastAcctOp = NoAcctOp

\* reconnectStates.get(accountId) === undefined
NoReconnectState == [exists |-> FALSE, attempts |-> 0, nextDelayMs |-> 0, aborted |-> FALSE]

ReconAtRest ==
    /\ reconnectState = NoReconnectState
    /\ connection = "idle"
    /\ timerDelay = 0
    /\ series = 0
    /\ listeners = 0
    /\ abortFired = FALSE
    /\ lastStart = "none"

NoFan == [called |-> FALSE, before |-> {}, lists |-> [k \in CacheKeys |-> {}],
          outcomes |-> [p \in Pairs |-> "ok"], element |-> NoElement]

FanAtRest == lastFan = NoFan

\* ------------------------------------------------------------ IQ queries
MaxQueries == 2
MaxIqTicks == 5
IQ_TIMEOUT_MS == 30000
QueryIds == 1..MaxQueries
StanzaIds == 1..(MaxQueries + 1)     \* the last id answers no request

NoQuery == [pc |-> "none", listener |-> FALSE, timer |-> FALSE, startedAt |-> 0,
            promise |-> "none", outcome |-> "none", settles |-> 0, response |-> 0]

IqAtRest == queries = [q \in QueryIds |-> NoQuery] /\ iqTime = 0

NoJidsCall == [asked |-> FALSE, excludeSelf |-> FALSE, result |-> NullJids]

RoomAtRest == lastJids = NoJidsCall /\ lastRoomEvent = "none"

SendQuiet ==
    /\ now = 0
    /\ activeClient = TRUE
    /\ omemoInit = (IF omemoEnabled THEN "done" ELSE "pending")
    /\ deviceCache = [k \in CacheKeys |-> NoEntry]
    /\ produced = <<>>
    /\ sent = <<>>
    /\ lastOp = [op |-> "none", to |-> "", text |-> "", caption |-> "", media |-> 0]

SendAtRest == SendQuiet /\ room = NoRoom

\* =========================================================== SpecSend: Init
NoOp == [op |-> "none", to |-> "", text |-> "", caption |-> "", media |-> 0]

Op(name, to, text, caption, media) ==
    [op |-> name, to |-> to, text |-> text, caption |-> caption, media |-> media]

InitSend ==
    /\ now = 0
    /\ activeClient = TRUE
    /\ omemoEnabled = FALSE
    /\ omemoInit = "pending"
    /\ deviceId \in OwnDevIds
    /\ sessions = {}
    /\ deviceCache = [k \in CacheKeys |-> NoEntry]
    /\ room = NoRoom
    /\ produced = <<>>
    /\ sent = <<>>
    /\ lastOp = NoOp
    /\ StoreAtRest
    /\ ConcAtRest
    /\ CacheAtRest
    /\ JoinAtRest
    /\ RoomAtRest
    /\ DataAtRest
    /\ FanAtRest
    /\ AcctAtRest
    /\ ReconAtRest
    /\ IqAtRest

\* no outbound operation is in progress
Idle == lastOp = NoOp

NoHistory ==
    /\ produced' = <<>>
    /\ sent' = <<>>
    /\ lastOp' = NoOp

\* the keys of the device lists an operation towards `to` reads
ListKeys(to) ==
    IF ~omemoEnabled THEN {}
    ELSE IF to = RoomJid THEN ElementsOf(getRoomOccupantJids(room, TRUE).jids) \cup {SelfAlias}
    ELSE {to, SelfAlias}

Apply(op, r) ==
    /\ sent' = r.sent
    /\ produced' = r.produced
    /\ deviceCache' = r.cache
    /\ sessions' = r.sessions
    /\ lastOp' = op
    /\ UNCHANGED <<now, activeClient, omemoInit, omemoEnabled, deviceId, room>>
    /\ UNCHANGED OutsideSend

\* ======================================================== SpecSend: actions
MaxMedia == 2          \* media URLs in one reply payload

Recipients == {PeerJid}     \* direct-message peers

\* initializeOmemo: on failure the connection continues without OMEMO
InitializeOmemo ==
    /\ Idle
    /\ ~omemoEnabled
    /\ \E ok \in BOOLEAN :
        /\ omemoEnabled' = ok
        /\ omemoInit' = (IF ok THEN "done" ELSE "failed")
    /\ NoHistory
    /\ UNCHANGED <<now, activeClient, deviceId, sessions, deviceCache, room>>
    /\ UNCHANGED OutsideSend

ShutdownOmemo ==
    /\ Idle
    /\ omemoEnabled
    /\ omemoEnabled' = FALSE
    /\ deviceCache' = clearDeviceCache(deviceCache)
    /\ omemoInit' = "stopped"
    /\ room' = NoRoom
    /\ NoHistory
    /\ UNCHANGED <<now, activeClient, deviceId, sessions>>
    /\ UNCHANGED OutsideSend

HandleMucPresence ==
    \E nick \in SendNicks, nonAnon \in BOOLEAN, self \in BOOLEAN,
       unavailable \in BOOLEAN, item \in {"none", "nojid", "jid"} :
        /\ Idle
        /\ self <=> nick = MucNick     \* the server marks our own presence with 110
        /\ room' = handleMucPresence(room, nick, nonAnon, self, unavailable, item)
        /\ NoHistory
        /\ UNCHANGED <<now, activeClient, omemoInit, omemoEnabled, deviceId, sessions, deviceCache>>
        /\ UNCHANGED OutsideSend

DeliverReplyText ==
    /\ Idle
    /\ \E isGroup \in BOOLEAN, sender \in Recipients, text \in {Text, ""}, sendOk \in BOOLEAN :
        LET to == IF isGroup THEN RoomJid ELSE sender
            keys == IF text = "" THEN {} ELSE ListKeys(to)
        IN  /\ isGroup => sender = PeerJid
            /\ \E f \in FetchEnv(keys) : \E o \in OutcomeEnv(sessions, f, keys) :
                 Apply(Op("deliverReply", to, text, "", 0),
                       deliverReplyText(isGroup, sender, text, f, o, sendOk))

DeliverReplyMedia ==
    /\ Idle
    /\ \E isGroup \in BOOLEAN, sender \in Recipients, text \in {Text, ""}, n \in 1..MaxMedia :
        \E uploads \in [1..n -> UploadOutcomes] :
            LET to == IF isGroup THEN RoomJid ELSE sender IN
            /\ isGroup => sender = PeerJid
            /\ Apply(Op("deliverReply", to, text, text, n),
                     deliverReplyMedia(isGroup, sender, text, uploads))

SendXmppMessage ==
    /\ Idle
    /\ \E to \in Recipients \cup {RoomJid}, sendOk \in BOOLEAN :
        LET keys == ListKeys(to) IN
        \E f \in FetchEnv(keys) : \E o \in OutcomeEnv(sessions, f, keys) :
            Apply(Op("sendXmppMessage", to, Text, "", 0),
                  sendXmppMessage(to, Text, f, o, sendOk))

SendXmppMedia ==
    /\ Idle
    /\ \E to \in Recipients \cup {RoomJid}, caption \in {Caption, ""},
       upload \in UploadOutcomes, sendOk \in BOOLEAN :
        LET keys == IF upload \in {"noservice", "fetcherror"} THEN {} ELSE ListKeys(to) IN
        \E f \in FetchEnv(keys) : \E o1 \in OutcomeEnv(sessions, f, keys) :
            \E o2 \in {o1, [p \in Pairs |-> "ok"]} :
                /\ caption = "" => o1 = o2
                /\ Apply(Op("sendXmppMedia", to, "", caption, 1),
                         sendXmppMedia(to, MediaUrl, caption, upload, f, o1, o2, sendOk))

\* the outbound operation returns to its caller
OperationReturns ==
    /\ ~Idle
    /\ NoHistory
    /\ UNCHANGED <<now, activeClient, omemoInit, omemoEnabled, deviceId, sessions, deviceCache, room>>
    /\ UNCHANGED OutsideSend

NextSend ==
    \/ OperationReturns
    \/ InitializeOmemo
    \/ ShutdownOmemo
    \/ HandleMucPresence
    \/ DeliverReplyText
    \/ DeliverReplyMedia
    \/ SendXmppMessage
    \/ SendXmppMedia

SpecSend == InitSend /\ [][NextSend]_vars

\* ============================================= SpecSend: checked properties
SentStanzas == {sent[i] : i \in DOMAIN sent}
ProducedElements == {produced[i] : i \in DOMAIN produced}
BodyStanzas == {st \in SentStanzas : st.body # ""}
IsWarning(st) == st.encrypted = NoElement /\ st.body \in WarnBodies
IsEncrypted(st) == st.encrypted # NoElement /\ st.body = FallbackBody
TextOp == lastOp.op \in {"deliverReply", "sendXmppMessage"} /\ lastOp.media = 0
                /\ lastOp.text # ""
MediaOp == lastOp.op \in {"deliverReply", "sendXmppMedia"} /\ lastOp.media > 0

\* C1: with OMEMO enabled, no stanza of a text reply or text send carries the
\* original text in the clear: every stanza with a body is the encrypted
\* stanza or the fixed warning.
C1_NoPlaintextText ==
    (omemoEnabled /\ TextOp) =>
        \A st \in BodyStanzas : st.body # lastOp.text /\ (IsEncrypted(st) \/ IsWarning(st))

\* C2: with OMEMO enabled, an operation with media transmits neither the
\* media URL nor the caption in the clear, and a caption that goes with a
\* transmitted message is OMEMO-encrypted or replaced by the warning.
C2_NoPlaintextMedia ==
    (omemoEnabled /\ MediaOp) =>
        /\ \A st \in SentStanzas : st.body \notin Plaintexts /\ st.oob = ""
        /\ (lastOp.caption # "" /\ BodyStanzas # {}) =>
                \/ \E st \in SentStanzas : st.encrypted.payload = lastOp.caption
                \/ \E st \in SentStanzas : IsWarning(st)

\* C3: when the encryption of an outbound text fails (no encrypted stanza
\* goes out), the only stanza with a body emitted for the text is the
\* warning; the original text is never sent.
C3_FailureSendsOnlyWarning ==
    (omemoEnabled /\ TextOp /\ ~\E st \in SentStanzas : IsEncrypted(st)) =>
        \A st \in BodyStanzas : IsWarning(st)

\* C7: every element encrypt-room produces has a key element whose rid is
\* the local device id.
C7_RoomElementHasLocalKey ==
    \A el \in ProducedElements :
        el.kind = "room" => \E k \in el.keys : k.rid = deviceId

C29_NoPlaintextBeforeReady ==
    (omemoInit \in {"pending", "failed"} /\ TextOp) =>
        \A st \in BodyStanzas : st.body # lastOp.text

\* C31: every element encrypt-direct or encrypt-room returns has a key
\* element for a device of an addressee (the recipient or a room occupant),
\* not only key elements for the own devices.
C31_KeyForAddressee ==
    \A el \in ProducedElements : \E k \in el.keys : k.side = "rcpt"

\* ================================================================ SpecStore
\* The Signal protocol store (OmemoStore) and its file persistence.
PREKEY_BATCH == 100      \* generatePreKeys(100)
PREKEY_MIN == 20         \* refill when fewer than this many remain
MaxUse == 2              \* successful decryptions counted per pre-key id

\* Math.floor(Math.random() * 0xFFFFFF): a few representative start ids
StartIds == {0, 60, 200}

\* a pool the program can have persisted: batch 0..99 with the first 80 used
LowPool == (PREKEY_BATCH - PREKEY_MIN)..(PREKEY_BATCH - 1)

IdRange(startId, count) == startId..(startId + count - 1)

generatePreKeys(pool, startId, count) == pool \cup IdRange(startId, count)

loadPreKey(pool, keyId) == keyId \in pool

\* ablation of removePreKey: the pool is not refilled
removePreKeyNoRefill(pool, keyId, startId) == pool \ {keyId}

removePreKey(pool, keyId, startId) ==
    LET rest == pool \ {keyId} IN
    IF Cardinality(rest) < PREKEY_MIN
    THEN generatePreKeys(rest, startId, PREKEY_BATCH)
    ELSE rest

\* storeSession ignores null/empty records
storeSession(sess, p, record) == IF record = "empty" THEN sess ELSE sess \cup {p}

removeSession(sess, p) == sess \ {p}

\* Strings that are taken apart are sequences of their parts: a JID, a
\* separator, a device id.  sessionKey: `${jid}.${deviceId}`
sessionKey(p) == <<p[1], ".", ToString(p[2])>>

startsWith(str, prefix) ==
    Len(prefix) <= Len(str) /\ SubSeq(str, 1, Len(prefix)) = prefix

\* identifier.split(":")[0]
splitColonFirst(str) ==
    LET colons == {i \in DOMAIN str : str[i] = ":"} IN
    IF colons = {} THEN str
    ELSE SubSeq(str, 1, (CHOOSE i \in colons : \A j \in colons : i <= j) - 1)

\* removeAllSessions: every key that starts with the prefix is deleted
removeAllSessions(sess, identifier) ==
    LET prefix == splitColonFirst(identifier) \o <<":">> IN
    {p \in sess : ~startsWith(sessionKey(p), prefix)}

\* what the caller may pass to name the peer: the JID (the name of a Signal
\* address), the address with its device id, or JID:device
PeerIdentifiers ==
    {<<PeerJid>>} \cup {sessionKey(p) : p \in {PeerJid} \X PeerDevIds}
                 \cup {<<PeerJid, ":", ToString(d)>> : d \in PeerDevIds}

exportData(dev, pool, sess) ==
    [exists |-> TRUE, deviceId |-> dev, preKeys |-> pool, sessions |-> sess]

\* saveOmemoStoreData / saveOmemoFileStore: a failed write is caught and logged
saveOmemoStoreData(file, data, diskOk) == IF diskOk THEN data ELSE file

StoreOp(name, mutated, diskOk, reported) ==
    [op |-> name, mutated |-> mutated, writeFailed |-> ~diskOk, reported |-> reported]

\* the peers whose sessions the store operations of this part are about
StorePairs == {PeerJid} \X PeerDevIds

InitStore ==
    /\ omemoEnabled = FALSE
    /\ deviceId = 0
    /\ sessions = {}
    /\ preKeys = {}
    /\ persisted \in {NoSnapshot, exportData(1, LowPool, {})}
    /\ consumed = [k \in WatchIds |-> 0]
    /\ lastStoreOp = NoStoreOp
    /\ serverDevices \in SUBSET OwnDevIds    \* ids of earlier incarnations and other devices
    /\ serverBundle = NoBundle
    /\ SendAtRest
    /\ ConcAtRest
    /\ CacheAtRest
    /\ JoinAtRest
    /\ RoomAtRest
    /\ DataAtRest
    /\ FanAtRest
    /\ AcctAtRest
    /\ ReconAtRest
    /\ IqAtRest

\* publishDeviceId: the list it sends (fetchOk = FALSE: fetchDeviceList
\* caught an error or a timeout and returned [])
publishDeviceId(dev, replaceAll, current, fetchOk) ==
    IF replaceAll THEN {dev}
    ELSE (IF fetchOk THEN current ELSE {}) \cup {dev}

\* publishBundle: buildBundleFromStore(..., store.getPreKeys())
publishBundle(pool) == [exists |-> TRUE, preKeys |-> pool]

\* initializeOmemo, called from the "online" handler of every connection:
\* load or generate (loaded = FALSE: store.initialize throws and the call
\* fails before anything is saved), set the persist callback, persist,
\* publish the device list and the bundle; the results of the two
\* publications are not looked at.
InitializeStore ==
    \E d \in OwnDevIds, startId \in StartIds, loaded \in BOOLEAN, diskOk \in BOOLEAN,
       fetchOk \in BOOLEAN, listOk \in BOOLEAN, bundleOk \in BOOLEAN :
        LET isFreshStart == ~persisted.exists
            dev == IF isFreshStart THEN d ELSE persisted.deviceId
            pool == IF isFreshStart THEN generatePreKeys({}, startId, PREKEY_BATCH)
                    ELSE persisted.preKeys
            sess == IF isFreshStart THEN {} ELSE persisted.sessions
        IN  /\ ~isFreshStart => (startId = 0 /\ d = 1)
            /\ isFreshStart => fetchOk
            /\ ~listOk => fetchOk
            /\ IF loaded
               THEN /\ persisted' = saveOmemoStoreData(persisted, exportData(dev, pool, sess), diskOk)
                    /\ omemoEnabled' = TRUE
                    /\ deviceId' = dev
                    /\ preKeys' = pool
                    /\ sessions' = sess
                    /\ serverDevices' =
                          IF listOk
                          THEN publishDeviceId(dev, isFreshStart, serverDevices, fetchOk)
                          ELSE serverDevices
                    /\ serverBundle' = IF bundleOk THEN publishBundle(pool) ELSE serverBundle
                    /\ lastStoreOp' = StoreOp("initialize", isFreshStart, diskOk, "ok")
               ELSE /\ startId = 0 /\ d = 1 /\ diskOk /\ fetchOk /\ listOk /\ bundleOk
                    /\ lastStoreOp' = StoreOp("initialize", FALSE, TRUE, "error")
                    /\ UNCHANGED <<persisted, omemoEnabled, deviceId, preKeys, sessions,
                                   serverDevices, serverBundle>>
    /\ UNCHANGED <<consumed, OutsideStore>>

ShutdownStore ==
    /\ omemoEnabled
    /\ \E diskOk \in BOOLEAN :
        /\ persisted' = saveOmemoStoreData(persisted, exportData(deviceId, preKeys, sessions), diskOk)
        /\ lastStoreOp' = StoreOp("shutdown", FALSE, diskOk, "ok")
    /\ omemoEnabled' = FALSE
    /\ preKeys' = {}
    /\ sessions' = {}
    /\ UNCHANGED <<deviceId, consumed, serverDevices, serverBundle, OutsideStore>>

StoreSession ==
    /\ omemoEnabled
    /\ \E p \in StorePairs, record \in {"valid", "empty"}, diskOk \in BOOLEAN :
        /\ sessions' = storeSession(sessions, p, record)
        /\ persisted' = IF record = "empty" THEN persisted
                        ELSE saveOmemoStoreData(persisted, exportData(deviceId, preKeys, sessions'), diskOk)
        /\ lastStoreOp' = StoreOp("storeSession", record # "empty",
                                  diskOk \/ record = "empty", "ok")
    /\ UNCHANGED <<omemoEnabled, deviceId, preKeys, consumed, serverDevices, serverBundle,
                 OutsideStore>>

RemoveSession ==
    /\ omemoEnabled
    /\ \E p \in sessions, diskOk \in BOOLEAN :
        /\ sessions' = removeSession(sessions, p)
        /\ persisted' = saveOmemoStoreData(persisted, exportData(deviceId, preKeys, sessions'), diskOk)
        /\ lastStoreOp' = StoreOp("removeSession", TRUE, diskOk, "ok")
    /\ UNCHANGED <<omemoEnabled, deviceId, preKeys, consumed, serverDevices, serverBundle,
                 OutsideStore>>

RemoveAllSessions ==
    /\ omemoEnabled
    /\ \E identifier \in PeerIdentifiers, diskOk \in BOOLEAN :
        /\ sessions' = removeAllSessions(sessions, identifier)
        /\ persisted' = saveOmemoStoreData(persisted, exportData(deviceId, preKeys, sessions'), diskOk)
        /\ lastStoreOp' = StoreOp("removeAllSessions", sessions' # sessions, diskOk, "ok")
    /\ UNCHANGED <<omemoEnabled, deviceId, preKeys, consumed, serverDevices, serverBundle,
                 OutsideStore>>

\* An inbound pre-key message that names one-time pre-key k.  The library
\* loads the pre-key; if it is there the decryption succeeds, the session is
\* stored and the pre-key is removed.
DecryptPreKeyMessage ==
    /\ omemoEnabled
    /\ \E p \in StorePairs, k \in WatchIds,
          startId \in StartIds, diskOk \in BOOLEAN :
        /\ consumed[k] < MaxUse
        /\ IF loadPreKey(preKeys, k)
           THEN /\ sessions' = storeSession(sessions, p, "valid")
                /\ preKeys' = removePreKey(preKeys, k, startId)
                /\ Cardinality(preKeys \ {k}) >= PREKEY_MIN => startId = 0
                /\ persisted' = saveOmemoStoreData(persisted,
                                    exportData(deviceId, preKeys', sessions'), diskOk)
                /\ consumed' = [consumed EXCEPT ![k] = @ + 1]
                /\ lastStoreOp' = StoreOp("removePreKey", TRUE, diskOk, "ok")
           ELSE /\ startId = 0 /\ diskOk
                /\ lastStoreOp' = StoreOp("decrypt", FALSE, TRUE, "error")
                /\ UNCHANGED <<sessions, preKeys, persisted, consumed>>
    /\ UNCHANGED <<omemoEnabled, deviceId, serverDevices, serverBundle, OutsideStore>>

NextStore ==
    \/ InitializeStore
    \/ ShutdownStore
    \/ StoreSession
    \/ RemoveSession
    \/ RemoveAllSessions
    \/ DecryptPreKeyMessage

SpecStore == InitStore /\ [][NextStore]_vars

\* ------------------------------------------- SpecStore: checked properties
\* C6: a pre-key id is consumed by at most one successful pre-key
\* decryption, and once consumed it is no longer in the store.
C6_PreKeySingleUse ==
    \A k \in WatchIds :
        /\ consumed[k] <= 1
        /\ (omemoEnabled /\ consumed[k] >= 1) => ~loadPreKey(preKeys, k)

\* C9: when a store operation that mutated identity, pre-keys or sessions
\* has reported success, the snapshot file holds the store's current state.
C9_PersistedBeforeSuccess ==
    (omemoEnabled /\ lastStoreOp.mutated /\ lastStoreOp.reported = "ok") =>
        persisted = exportData(deviceId, preKeys, sessions)

\* C10: a mutating store operation whose snapshot write failed reports the
\* failure to its caller.
C10_WriteFailureReported ==
    (lastStoreOp.mutated /\ lastStoreOp.writeFailed) => lastStoreOp.reported = "error"

\* C35: after removing all sessions of the peer the store has no session
\* record of the peer, for any device id, and the snapshot written has the
\* sessions that are left.
C35_AllPeerSessionsRemoved ==
    lastStoreOp.op = "removeAllSessions" =>
        /\ \A p \in sessions : p[1] # PeerJid
        /\ ~lastStoreOp.writeFailed => persisted.sessions = sessions

\* C11: the device id of the account never changes: once a store has had a
\* device id, every later initialization (after a shutdown or on a reconnect)
\* comes up with the same one.
C11_DeviceIdStable == [][deviceId # 0 => deviceId' = deviceId]_vars

\* C12: a pre-key removal that brings the pool below 20 leaves a pool of at
\* least 100 pre-keys.
C12_PoolRefilled ==
    [][(lastStoreOp'.op = "removePreKey" /\ Cardinality(preKeys) - 1 < PREKEY_MIN)
            => Cardinality(preKeys') >= PREKEY_BATCH]_vars

\* C12 witness: a removal has just refilled a pool that had 20 pre-keys left.
C12_Witness ==
    /\ lastStoreOp.op = "removePreKey"
    /\ Cardinality(preKeys) >= PREKEY_BATCH
    /\ \E k \in WatchIds : consumed[k] >= 1 /\ LowPool \ {k} \subseteq preKeys

\* C13: after a pre-key is consumed or the pool is refilled, the bundle on
\* the server advertises exactly the pre-keys of the store.
C13_BundleFollowsPool ==
    (omemoEnabled /\ lastStoreOp.op = "removePreKey") =>
        serverBundle = publishBundle(preKeys)

\* C14: the device list an initialization publishes is the single local
\* device id when there was no persisted identity, and otherwise the union
\* of the local device id and the list the server had.
C14_PublishedDeviceList ==
    [][(lastStoreOp'.op = "initialize" /\ serverDevices' # serverDevices) =>
            serverDevices' = IF ~persisted.exists THEN {deviceId'}
                             ELSE serverDevices \cup {deviceId'}]_vars

\* ================================================================ SpecCache
\* The device-list cache of one peer under pushes, reads and the clock.
MaxTtlPeriods == 4       \* the clock runs this many cache lifetimes
MaxNow == MaxTtlPeriods * (CACHE_TTL_MS + 1)
TickSteps == {CACHE_TTL_MS, CACHE_TTL_MS + 1}    \* exactly one lifetime, and just over

\* age of the peer's entry, -1 when there is none
EntryAge(cache, jid) ==
    IF cache[cacheKey(jid)] = NoEntry THEN -1 ELSE now - cache[cacheKey(jid)].timestamp

InitCache ==
    /\ omemoEnabled = TRUE
    /\ deviceId = 1
    /\ sessions = {}
    /\ SendAtRest
    /\ StoreAtRest
    /\ ConcAtRest
    /\ CacheAtRest
    /\ JoinAtRest
    /\ RoomAtRest
    /\ DataAtRest
    /\ FanAtRest
    /\ AcctAtRest
    /\ ReconAtRest
    /\ IqAtRest

OutsideCache == <<varsShared, activeClient, omemoInit, room, produced, sent, lastOp, varsStore, varsConc, varsJoin, varsRoom, varsData, varsFan, varsAcct, varsRecon, varsIq>>

Tick ==
    \E step \in TickSteps :
        /\ now + step <= MaxNow
        /\ now' = now + step
        /\ UNCHANGED <<deviceCache, varsCache, OutsideCache>>

\* a publish-subscribe notification from the peer reaches the PEP handlers
DeviceListPepEvent ==
    \E isDeviceNode \in BOOLEAN, devices \in SUBSET PeerDevIds :
        /\ deviceCache' = handleDeviceListPepEvent(deviceCache, PeerJid, isDeviceNode, devices)
        /\ lastPush' = IF isDeviceNode THEN [seen |-> TRUE, devices |-> devices, at |-> now]
                       ELSE lastPush
        /\ lastRead' = NoRead
        /\ UNCHANGED <<now, OutsideCache>>

GetDeviceList ==
    \E forceRefresh \in BOOLEAN, published \in SUBSET PeerDevIds, fetchOk \in BOOLEAN :
        LET cached == getCachedDevices(deviceCache, PeerJid)
            fetched == fetchDeviceList(published, fetchOk)
            r == getDeviceList(deviceCache, PeerJid, forceRefresh, fetched)
            served == ~forceRefresh /\ cached.hit
        IN  /\ served => (published = {} /\ fetchOk)
            /\ ~fetchOk => published = {}
            /\ deviceCache' = r.cache
            /\ lastRead' = [op |-> "getDeviceList", forceRefresh |-> forceRefresh,
                            age |-> EntryAge(deviceCache, PeerJid), fetched |-> ~served,
                            failed |-> ~fetchOk,
                            devices |-> r.devices, entries |-> 0]
            /\ UNCHANGED <<now, lastPush, OutsideCache>>

GetDeviceCacheStats ==
    /\ lastRead' = [op |-> "getDeviceCacheStats", forceRefresh |-> FALSE,
                    age |-> EntryAge(deviceCache, PeerJid), fetched |-> FALSE,
                    failed |-> FALSE,
                    devices |-> {}, entries |-> getDeviceCacheStats(deviceCache)]
    /\ UNCHANGED <<now, deviceCache, lastPush, OutsideCache>>

NextCache ==
    \/ Tick
    \/ DeviceListPepEvent
    \/ GetDeviceList
    \/ GetDeviceCacheStats

SpecCache == InitCache /\ [][NextCache]_vars

\* ------------------------------------------ SpecCache: checked properties
\* C15: a read without forced refresh that comes within 5 minutes after
\* the last device-list notification of the peer returns exactly the
\* notified device set, from the cache.
C15_PushThenRead ==
    (/\ lastPush.seen
     /\ lastRead.op = "getDeviceList"
     /\ ~lastRead.forceRefresh
     /\ now - lastPush.at <= CACHE_TTL_MS) =>
        (lastRead.devices = lastPush.devices /\ ~lastRead.fetched)

\* C33: a read that fetches (cache miss or forced refresh) sets the cache
\* entry to the fetched list when the fetch succeeds, and leaves the cache
\* as it is when the fetch fails.
C33_FailedFetchNotCached ==
    [][(lastRead' # lastRead /\ lastRead'.op = "getDeviceList" /\ lastRead'.fetched) =>
          IF lastRead'.failed
          THEN deviceCache' = deviceCache
          ELSE deviceCache'[PeerJid] = [devices |-> lastRead'.devices, timestamp |-> now']]_vars

Started == {t \in TaskIds : tasks[t] # NoTask}
NextTask == Cardinality(Started) + 1

\* the task is between the start of a session operation and its commit
InSessionOp(t) ==
    tasks[t].pc \in {"decrypt1", "decrypt2", "fetchBundle", "processPreKey", "encrypt"}

hasSession(sess, p) == p \in sess

InitConc ==
    /\ omemoEnabled = TRUE
    /\ deviceId = 1
    /\ sessions = {}
    /\ StoreAtRest
    /\ SendQuiet
    /\ room \in {NoRoom, RoomWithPeer}
    /\ ConcAtRest
    /\ CacheAtRest
    /\ JoinAtRest
    /\ RoomAtRest
    /\ DataAtRest
    /\ FanAtRest
    /\ AcctAtRest
    /\ ReconAtRest
    /\ IqAtRest

SetTask(t, task) == tasks' = [tasks EXCEPT ![t] = task]

\* monitor.ts stanza handler up to its first await.  For an encrypted stanza
\* decryptOmemoMessage resolves the sender first: in a room the nickname
\* goes through getOccupantRealJid, and without a real JID it returns null
\* before any Signal call; the handler then falls back to the stanza's body
\* element (hasBody), as it does after a failed decryption.  Before the
\* sender it looks for the key element of the own device (forUs) and
\* returns null without one.  The task's body is where the text the handler
\* goes on with comes from: "plain" (a stanza that is not encrypted),
\* "decrypted", or "fallback" (the body element of an encrypted stanza).
AfterBody(isGroup) == IF isGroup THEN "record" ELSE "marker"

\* the handler after decryptOmemoMessage returned null or threw:
\* 'if (!body) body = stanza.getChildText("body")', then 'if (!body) return'
fallbackBody(task, hasBody) ==
    IF hasBody THEN [task EXCEPT !.pc = AfterBody(task.isGroup), !.body = "fallback"]
    ELSE [task EXCEPT !.pc = "dropped"]

\* ablation of earlySkip: no stanza is skipped before the decryption
earlySkipNever(isGroup, fromNick, delayed) == FALSE

\* the early checks of the handler: a groupchat stanza from our own nickname
\* (from.split("/")[1] === mucNick), and a stanza with a delay element
earlySkip(isGroup, fromNick, delayed) ==
    \/ isGroup /\ fromNick = MucNick
    \/ delayed

StanzaArrives ==
    /\ NextTask \in TaskIds
    /\ \E d \in PeerDevIds, encrypted \in BOOLEAN, isGroup \in BOOLEAN, hasBody \in BOOLEAN,
          forUs \in BOOLEAN, fromNick \in {PeerNick, MucNick}, delayed \in BOOLEAN :
        LET senderJid == IF isGroup THEN getOccupantRealJid(room, fromNick) ELSE PeerJid
            attempted == omemoEnabled /\ encrypted
            started == attempted /\ forUs /\ senderJid # "null"
            task == [Task("in", <<PeerJid, d>>, isGroup, "decrypt1")
                        EXCEPT !.resolved = ~attempted \/ senderJid # "null",
                               !.fromNick = fromNick, !.delayed = delayed]
        IN  /\ (~attempted \/ started) => (hasBody /\ forUs)
            /\ ~forUs => hasBody     \* a stanza for other devices has its fallback body
            /\ ~isGroup => fromNick = PeerNick      \* a direct message has no nickname
            \* an echo or a history stanza of the model is encrypted for this device
            /\ (fromNick = MucNick \/ delayed) => (encrypted /\ forUs /\ hasBody)
            /\ SetTask(NextTask,
                       IF earlySkip(isGroup, fromNick, delayed)
                       THEN [task EXCEPT !.pc = "skipped", !.resolved = TRUE]
                       ELSE IF started THEN task
                       ELSE IF attempted THEN fallbackBody(task, hasBody)
                       ELSE [task EXCEPT !.pc = AfterBody(isGroup), !.body = "plain"])
    /\ UNCHANGED <<handedOff, varsShared, OutsideConc>>

\* decryptOmemoMessage once decryptMessageKey has the message key: without a
\* payload (key transport), or when decryptPayload throws, it returns null
\* (plaintext = FALSE)
messageKeyDecrypted(task, plaintext, hasBody) ==
    IF plaintext THEN [task EXCEPT !.pc = AfterBody(task.isGroup), !.body = "decrypted"]
    ELSE fallbackBody(task, hasBody)

\* decryptMessageKey: the first attempt; failing it falls through to the other
\* message type
DecryptFirstAttempt ==
    \E t \in Started, ok \in BOOLEAN, plaintext \in BOOLEAN, hasBody \in BOOLEAN :
        /\ tasks[t].pc = "decrypt1"
        /\ (~ok \/ plaintext) => (plaintext /\ hasBody)
        /\ IF ok
           THEN /\ sessions' = sessions \cup {tasks[t].pair}
                /\ SetTask(t, messageKeyDecrypted(tasks[t], plaintext, hasBody))
           ELSE /\ SetTask(t, [tasks[t] EXCEPT !.pc = "decrypt2"])
                /\ UNCHANGED sessions
        /\ UNCHANGED <<omemoEnabled, deviceId, handedOff, OutsideConc>>

\* the second attempt; when it fails too, decryptOmemoMessage returns null and
\* the handler falls back to the stanza's body element, if there is one
DecryptSecondAttempt ==
    \E t \in Started, ok \in BOOLEAN, plaintext \in BOOLEAN, hasBody \in BOOLEAN :
        /\ tasks[t].pc = "decrypt2"
        /\ plaintext => (ok /\ hasBody)
        /\ IF ok
           THEN /\ sessions' = sessions \cup {tasks[t].pair}
                /\ SetTask(t, messageKeyDecrypted(tasks[t], plaintext, hasBody))
           ELSE /\ SetTask(t, fallbackBody(tasks[t], hasBody))
                /\ UNCHANGED sessions
        /\ UNCHANGED <<omemoEnabled, deviceId, handedOff, OutsideConc>>

\* handleInboundMessage: await sendChatMarker (direct messages only)
MarkerSent ==
    \E t \in Started :
        /\ tasks[t].pc = "marker"
        /\ SetTask(t, [tasks[t] EXCEPT !.pc = "record"])
        /\ UNCHANGED <<handedOff, varsShared, OutsideConc>>

\* handleInboundMessage: await recordInboundSession, then the dispatch call
SessionRecorded ==
    \E t \in Started :
        /\ tasks[t].pc = "record"
        /\ SetTask(t, [tasks[t] EXCEPT !.pc = "dispatched"])
        /\ handedOff' = Append(handedOff, t)
        /\ UNCHANGED <<varsShared, OutsideConc>>

\* ablation of encryptStart: no look-up of the account's store
encryptStartNoGuard(enabled, sess, p) ==
    IF ~hasSession(sess, p) THEN "fetchBundle" ELSE "encrypt"

\* encryptOmemoMessage / encryptMucOmemoMessage up to the first await of
\* encryptKeyForDevice: without a store for the account the call returns
\* null at once
encryptStart(enabled, sess, p) ==
    IF ~enabled THEN "refused"
    ELSE IF ~hasSession(sess, p) THEN "fetchBundle" ELSE "encrypt"

BeginEncrypt ==
    /\ NextTask \in TaskIds
    /\ \E p \in Pairs :
        SetTask(NextTask, Task("out", p, FALSE, encryptStart(omemoEnabled, sessions, p)))
    /\ UNCHANGED <<handedOff, varsShared, OutsideConc>>

\* shutdownOmemo: the snapshot is written, the device cache and the room
\* states are cleared, the store is dropped from the maps; operations that
\* already hold the store go on
ShutdownWhileBusy ==
    /\ omemoEnabled
    /\ omemoEnabled' = FALSE
    /\ \E diskOk \in BOOLEAN :
        persisted' = saveOmemoStoreData(persisted, exportData(deviceId, preKeys, sessions), diskOk)
    /\ deviceCache' = clearDeviceCache(deviceCache)
    /\ room' = NoRoom
    /\ omemoInit' = "stopped"
    /\ UNCHANGED <<deviceId, sessions, now, activeClient, produced, sent, lastOp,
                   preKeys, consumed, lastStoreOp, serverDevices, serverBundle,
                   varsConc, varsCache, varsJoin, varsRoom, varsData, varsFan, varsAcct, varsRecon, varsIq>>

\* await fetchBundle: no bundle, the device is skipped
BundleFetched ==
    \E t \in Started, bundle \in BOOLEAN :
        /\ tasks[t].pc = "fetchBundle"
        /\ SetTask(t, [tasks[t] EXCEPT !.pc = IF bundle THEN "processPreKey" ELSE "failed"])
        /\ UNCHANGED <<handedOff, varsShared, OutsideConc>>

\* await sessionBuilder.processPreKey: the session is built and stored
ProcessPreKey ==
    \E t \in Started :
        /\ tasks[t].pc = "processPreKey"
        /\ sessions' = sessions \cup {tasks[t].pair}
        /\ SetTask(t, [tasks[t] EXCEPT !.pc = "encrypt"])
        /\ UNCHANGED <<omemoEnabled, deviceId, handedOff, OutsideConc>>

\* await cipher.encrypt: the ratchet step is stored
KeyEncrypted ==
    \E t \in Started, ok \in BOOLEAN :
        /\ tasks[t].pc = "encrypt"
        /\ SetTask(t, [tasks[t] EXCEPT !.pc = IF ok THEN "done" ELSE "failed"])
        /\ sessions' = IF ok THEN sessions \cup {tasks[t].pair} ELSE sessions
        /\ UNCHANGED <<omemoEnabled, deviceId, handedOff, OutsideConc>>

NextConc ==
    \/ StanzaArrives
    \/ DecryptFirstAttempt
    \/ DecryptSecondAttempt
    \/ MarkerSent
    \/ SessionRecorded
    \/ BeginEncrypt
    \/ ShutdownWhileBusy
    \/ BundleFetched
    \/ ProcessPreKey
    \/ KeyEncrypted

SpecConc == InitConc /\ [][NextConc]_vars

\* -------------------------------------------- SpecConc: checked properties
\* C4: session operations on one (peer JID, device id) pair are serialized:
\* at no time are two operations on the same pair between their start and
\* their commit.
C4_SessionOpsSerialized ==
    \A t1, t2 \in Started :
        (t1 # t2 /\ InSessionOp(t1) /\ InSessionOp(t2)) => tasks[t1].pair # tasks[t2].pair

\* C5: inbound stanzas reach the agent runtime in the order the server
\* delivered them: when a stanza has been handed off, no stanza delivered
\* before it is still in its handler.
C5_InboundInOrder ==
    \A a, b \in Started :
        (a < b /\ tasks[a].kind = "in" /\ tasks[b].kind = "in"
            /\ tasks[b].pc = "dispatched") => tasks[a].pc \in {"dispatched", "dropped"}

\* C17: an encrypted room stanza whose sender nickname has no real JID is
\* dropped: no Signal operation is started for it and it is not handed to
\* the agent runtime.
C17_UnknownSenderDropped ==
    \A t \in Started :
        (tasks[t].kind = "in" /\ ~tasks[t].resolved) =>
            (~InSessionOp(t) /\ tasks[t].pc # "dispatched")

\* C30: a stanza with an encrypted element whose decryption yielded no
\* plaintext is not handed to the agent runtime with its fallback body.
C30_FallbackBodyNotDelivered ==
    \A t \in Started :
        (tasks[t].kind = "in" /\ tasks[t].body = "fallback") => tasks[t].pc # "dispatched"

\* C34: in the fan-out a bundle is fetched and a session is built for a pair
\* exactly when the store has no session record for the pair (the call
\* starts with the bundle fetch exactly then, and processPreKey builds a
\* session only for a pair without one), and after a successful key
\* encryption the store has a session record for the pair.
C34_SessionOnDemand ==
    [][\A t \in TaskIds :
          /\ (tasks[t] = NoTask /\ tasks'[t].kind = "out" /\ tasks'[t].pc # "refused") =>
                (tasks'[t].pc = "fetchBundle" <=> ~hasSession(sessions, tasks'[t].pair))
          /\ (tasks[t].pc = "processPreKey" /\ tasks'[t].pc = "encrypt") =>
                ~hasSession(sessions, tasks[t].pair)
          /\ tasks'[t].pc = "done" => hasSession(sessions', tasks'[t].pair)]_vars

\* C36: a groupchat stanza that is our own reflected message, and a delayed
\* (history) stanza, is skipped before the decryption: its handler is never
\* in a session operation, and the step that takes it in changes no session,
\* no pre-key and no snapshot.
C36_SkippedBeforeDecryption ==
    [][\A t \in TaskIds :
          (/\ tasks'[t].kind = "in"
           /\ \/ tasks'[t].isGroup /\ tasks'[t].fromNick = MucNick
              \/ tasks'[t].delayed) =>
              /\ ~InSessionOp(t)'
              /\ tasks'[t].pc = "skipped"
              /\ tasks[t] = NoTask =>
                    (sessions' = sessions /\ preKeys' = preKeys /\ persisted' = persisted)]_vars

\* C36 witness: with OMEMO enabled, an own reflected room message and a
\* history message, both encrypted for this device, were skipped while the
\* room knows the peer's real JID.
C36_Witness ==
    /\ omemoEnabled
    /\ room = RoomWithPeer
    /\ \E t \in Started : tasks[t].pc = "skipped" /\ tasks[t].isGroup
                              /\ tasks[t].fromNick = MucNick /\ ~tasks[t].delayed
    /\ \E t \in Started : tasks[t].pc = "skipped" /\ ~tasks[t].isGroup /\ tasks[t].delayed

\* C18: after the shutdown of the account a new encryption or decryption is
\* refused: the step that starts it begins no session operation (no bundle
\* fetch, no Signal call), an encryption ends as refused, and the sessions
\* and the snapshot stay as they are.  Operations in flight are not touched.
C18_RefusedAfterShutdown ==
    [][~omemoEnabled =>
        \A t \in TaskIds :
            (tasks[t] = NoTask /\ tasks'[t] # NoTask) =>
                /\ ~InSessionOp(t)'
                /\ tasks'[t].kind = "out" => tasks'[t].pc = "refused"
                /\ sessions' = sessions
                /\ persisted' = persisted]_vars

\* C18 witness: after the shutdown an encryption was refused while an
\* operation started before the shutdown is still in flight.
C18_Witness ==
    /\ ~omemoEnabled
    /\ \E t \in Started : tasks[t].pc = "refused"
    /\ \E t \in Started : InSessionOp(t)

\* ================================================ SpecJoin: room-join waits
\* joinMuc and handleMucInvite register a waiter per room and wait for the
\* room's self-presence; the waiter's timer, the presence handler and
\* cleanupAccountState are what end a wait.  One join per room is in flight
\* at a time.

InitJoin ==
    /\ omemoEnabled = FALSE
    /\ deviceId = 0
    /\ sessions = {}
    /\ SendAtRest
    /\ StoreAtRest
    /\ ConcAtRest
    /\ CacheAtRest
    /\ JoinAtRest
    /\ RoomAtRest
    /\ DataAtRest
    /\ FanAtRest
    /\ AcctAtRest
    /\ ReconAtRest
    /\ IqAtRest

OutsideJoin == <<varsShared, varsSend, varsStore, varsConc, varsCache, varsRoom, varsData, varsFan, varsAcct, varsRecon, varsIq>>

\* joinMuc up to "await joinConfirmation": the waiter of a configured or
\* persisted room, whose timer resolves the wait
JoinMuc(r) ==
    /\ ~stopped
    /\ pendingMucJoins[r] = NoWaiter
    /\ pendingMucJoins' = [pendingMucJoins EXCEPT ![r] = "config"]
    /\ joinOutcome' = [joinOutcome EXCEPT ![r] = "waiting"]
    /\ UNCHANGED <<stopped, joinedRooms, OutsideJoin>>

\* handleMucInvite up to "await joinConfirmation": the waiter of an invited
\* room, whose timer rejects the wait
HandleMucInvite(r) ==
    /\ ~stopped
    /\ pendingMucJoins[r] = NoWaiter
    /\ pendingMucJoins' = [pendingMucJoins EXCEPT ![r] = "invite"]
    /\ joinOutcome' = [joinOutcome EXCEPT ![r] = "waiting"]
    /\ UNCHANGED <<stopped, joinedRooms, OutsideJoin>>

\* presence handler, status code 110: resolve the waiter; the join function
\* continues and tracks the room as joined
SelfPresence(r) ==
    /\ ~stopped
    /\ pendingMucJoins[r] # NoWaiter
    /\ pendingMucJoins' = [pendingMucJoins EXCEPT ![r] = NoWaiter]
    /\ joinOutcome' = [joinOutcome EXCEPT ![r] = "confirmed"]
    /\ joinedRooms' = joinedRooms \cup {r}
    /\ UNCHANGED <<stopped, OutsideJoin>>

\* the waiter's timer fires after MUC_JOIN_TIMEOUT_MS: joinMuc resolves and
\* tracks the room as joined, handleMucInvite rejects with a join timeout
JoinTimeout(r) ==
    /\ pendingMucJoins[r] # NoWaiter
    /\ pendingMucJoins' = [pendingMucJoins EXCEPT ![r] = NoWaiter]
    /\ IF pendingMucJoins[r] = "config"
       THEN /\ joinOutcome' = [joinOutcome EXCEPT ![r] = "timeout, proceeding"]
            /\ joinedRooms' = joinedRooms \cup {r}
       ELSE /\ joinOutcome' = [joinOutcome EXCEPT ![r] = "MUC join timeout"]
            /\ joinedRooms' = joinedRooms
    /\ UNCHANGED <<stopped, OutsideJoin>>

\* the abort listener of startXmppConnection: stops keepalive, OMEMO and the
\* client; pendingMucJoins and joinedRooms are not touched
StopAccount ==
    /\ ~stopped
    /\ stopped' = TRUE
    /\ UNCHANGED <<pendingMucJoins, joinOutcome, joinedRooms, OutsideJoin>>

\* cleanupAccountState: stops the client, rejects and removes every waiter of
\* the account, forgets its joined rooms and aborts reconnection
cleanupAccountState(pending, outcome) ==
    [pending |-> [r \in JoinRooms |-> NoWaiter],
     outcome |-> [r \in JoinRooms |->
                    IF pending[r] # NoWaiter THEN "Account cleanup" ELSE outcome[r]]]

CleanupAccountState ==
    /\ stopped' = TRUE
    /\ LET c == cleanupAccountState(pendingMucJoins, joinOutcome)
       IN /\ pendingMucJoins' = c.pending
          /\ joinOutcome' = c.outcome
    /\ joinedRooms' = {}
    /\ UNCHANGED OutsideJoin

NextJoin ==
    \/ \E r \in JoinRooms : JoinMuc(r)
    \/ \E r \in JoinRooms : HandleMucInvite(r)
    \/ \E r \in JoinRooms : SelfPresence(r)
    \/ \E r \in JoinRooms : JoinTimeout(r)
    \/ StopAccount
    \/ CleanupAccountState

SpecJoin == InitJoin /\ [][NextJoin]_vars

\* C19: when the account is stopped, every room-join wait pending at that
\* moment is rejected with the account-cleanup failure and removed from the
\* pending set, and from then on no wait is pending or ends as a joined room.
C19_PendingJoinsRejectedOnStop ==
    [][/\ (~stopped /\ stopped') =>
            \A r \in JoinRooms : pendingMucJoins[r] # NoWaiter =>
                /\ pendingMucJoins'[r] = NoWaiter
                /\ joinOutcome'[r] = "Account cleanup"
       /\ stopped' => /\ \A r \in JoinRooms : pendingMucJoins'[r] = NoWaiter
                      /\ joinedRooms' \subseteq joinedRooms]_vars

\* ================================================== SpecRoom: MUC occupants
\* The presence handler tracks the occupants of RoomJid and
\* getRoomOccupantJids is asked for their real JIDs.

InitRoom ==
    /\ omemoEnabled = FALSE
    /\ deviceId = 0
    /\ sessions = {}
    /\ SendAtRest
    /\ StoreAtRest
    /\ ConcAtRest
    /\ CacheAtRest
    /\ JoinAtRest
    /\ RoomAtRest
    /\ DataAtRest
    /\ FanAtRest
    /\ AcctAtRest
    /\ ReconAtRest
    /\ IqAtRest

OutsideRoom == <<varsShared, now, activeClient, omemoInit, deviceCache, produced, sent, lastOp,
                 varsStore, varsConc, varsCache, varsJoin, varsData, varsFan, varsAcct, varsRecon, varsIq>>

\* a presence from an occupant of the room; the server puts status 110 on
\* our own presence only
MucPresence ==
    \E nick \in Nicks, nonAnon \in BOOLEAN, unavailable \in BOOLEAN,
       item \in {"none", "nojid", "jid"} :
        /\ room' = handleMucPresence(room, nick, nonAnon, nick = MucNick, unavailable, item)
        /\ lastJids' = NoJidsCall
        /\ lastRoomEvent' = IF nick = MucNick /\ unavailable THEN "left" ELSE "presence"
        /\ UNCHANGED OutsideRoom

GetRoomOccupantJids ==
    \E excludeSelf \in BOOLEAN :
        /\ lastJids' = [asked |-> TRUE, excludeSelf |-> excludeSelf,
                        result |-> getRoomOccupantJids(room, excludeSelf)]
        /\ UNCHANGED <<room, lastRoomEvent, OutsideRoom>>

\* roomStates.delete for every room of the account
clearAllRoomStates(r) == NoRoom

\* shutdownOmemo, as far as the room state goes
ShutdownRoom ==
    /\ room' = clearAllRoomStates(room)
    /\ lastJids' = NoJidsCall
    /\ lastRoomEvent' = "shutdown"
    /\ UNCHANGED OutsideRoom

NextRoom ==
    \/ MucPresence
    \/ GetRoomOccupantJids
    \/ ShutdownRoom

SpecRoom == InitRoom /\ [][NextRoom]_vars

\* the occupants tracked in the room, without our own when it is excluded
Considered(excludeSelf) ==
    {n \in Nicks : room.occupants[n] # "absent" /\ ~(excludeSelf /\ n = MucNick)}

KnownRealJids(excludeSelf) ==
    {room.occupants[n] : n \in {m \in Considered(excludeSelf) : room.occupants[m] \in Jids}}

\* C20: getRoomOccupantJids(room, excludeSelf) answers none when the room is
\* not classified non-anonymous or none of the occupants it considers has a
\* known real JID; otherwise it answers a list without duplicates whose
\* elements are exactly the real bare JIDs of the tracked occupants, our own
\* occupant left out when excludeSelf is set.
C20_OccupantRealJids ==
    lastJids.asked =>
        IF room.anonymity # "non-anonymous" \/ KnownRealJids(lastJids.excludeSelf) = {}
        THEN lastJids.result = NullJids
        ELSE /\ ~lastJids.result.null
             /\ ElementsOf(lastJids.result.jids) = KnownRealJids(lastJids.excludeSelf)
             /\ Len(lastJids.result.jids) = Cardinality(KnownRealJids(lastJids.excludeSelf))

\* both clients of the peer and our own occupant are tracked with their real
\* JIDs and the list was asked for without our own
C20_Witness ==
    /\ lastJids.asked /\ lastJids.excludeSelf
    /\ \A n \in Nicks : room.occupants[n] \in Jids
    /\ lastJids.result.jids = <<PeerJid>>

\* C21: the room state exists only after a presence of the room was handled,
\* and right after our own occupant left the room (our unavailable presence)
\* or the account shut down, no occupant and no anonymity classification
\* remain for the room.
C21_RoomStateDiscarded ==
    /\ room.exists => lastRoomEvent \in {"presence", "left"}
    /\ lastRoomEvent \in {"left", "shutdown"} =>
            /\ \A n \in Nicks : room.occupants[n] = "absent"
            /\ room.anonymity = "unknown"

\* ============================================ SpecData: the OmemoStore object
\* The store object with the contents of its records, the OmemoStoreData it
\* is exported to and restored from, and the Signal storage interface.

MaxDataDev == 2        \* device ids generateIdentity can draw

\* generateIdentity: device id, registration id and key material drawn at random
generateIdentity(d) ==
    [NoStore EXCEPT !.initialized = TRUE, !.deviceId = d, !.registrationId = d,
                    !.identityKeyPair = Bytes(d), !.signedPreKey = Bytes(d),
                    !.preKeys = [k \in DataPreKeyIds |-> Bytes(d)]]

loadSessionTextKeepEmpty(value) ==
    IF value = MissingText THEN AbsentSession
    ELSE IF value.kind = "json" THEN StringSession(value)
    ELSE BufferSession(fromBase64(value))

\* one entry of data.sessions in loadFromData
loadSessionText(value) ==
    IF value = MissingText \/ value = EmptyText THEN AbsentSession
    ELSE IF value.kind = "json" THEN StringSession(value)
    ELSE BufferSession(fromBase64(value))

loadFromData(data) ==
    [initialized |-> TRUE,
     deviceId |-> data.deviceId,
     registrationId |-> data.registrationId,
     identityKeyPair |-> fromBase64(data.identityKeyPair),
     signedPreKey |-> fromBase64(data.signedPreKey),
     preKeys |-> [k \in DataPreKeyIds |->
                    IF data.preKeys[k] = MissingText THEN NoBytes
                    ELSE fromBase64(data.preKeys[k])],
     sessions |-> [k \in DataSessKeys |-> loadSessionText(data.sessions[k])],
     identities |-> [k \in DataPeers |->
                    IF data.identities[k] = MissingText THEN NoBytes
                    ELSE fromBase64(data.identities[k])]]

\* one entry of this.sessions in exportData
exportSessionText(value) ==
    IF value.type = "undefined" THEN MissingText
    ELSE IF value.type = "string"
         THEN IF value.text # EmptyText THEN value.text ELSE MissingText
    ELSE IF value.bytes # NoBytes THEN toBase64(value.bytes) ELSE MissingText

\* OmemoStore.exportData of an initialised store
exportStoreData(st) ==
    [exists |-> TRUE,
     deviceId |-> st.deviceId,
     registrationId |-> st.registrationId,
     identityKeyPair |-> toBase64(st.identityKeyPair),
     signedPreKey |-> toBase64(st.signedPreKey),
     preKeys |-> [k \in DataPreKeyIds |->
                    IF st.preKeys[k] = NoBytes THEN MissingText ELSE toBase64(st.preKeys[k])],
     sessions |-> [k \in DataSessKeys |-> exportSessionText(st.sessions[k])],
     identities |-> [k \in DataPeers |->
                    IF st.identities[k] = NoBytes THEN MissingText
                    ELSE toBase64(st.identities[k])]]

storeSessionRecordNoGuard(st, key, record) ==
    [store |-> [st EXCEPT !.sessions[key] =
                    IF record.type \in {"string", "boxed"} THEN StringSession(record.text)
                    ELSE BufferSession(record.bytes)],
     persisted |-> TRUE]

\* OmemoStore.storeSession: the store afterwards and whether persist() ran
storeSessionRecord(st, key, record) ==
    IF record.type = "null" THEN [store |-> st, persisted |-> FALSE]
    ELSE IF record.type \in {"string", "boxed"}
    THEN IF record.text = EmptyText THEN [store |-> st, persisted |-> FALSE]
         ELSE [store |-> [st EXCEPT !.sessions[key] = StringSession(record.text)],
               persisted |-> TRUE]
    ELSE IF record.type \in {"uncopyable", "other"} THEN [store |-> st, persisted |-> FALSE]
    ELSE IF record.bytes = NoBytes THEN [store |-> st, persisted |-> FALSE]
    ELSE [store |-> [st EXCEPT !.sessions[key] = BufferSession(record.bytes)],
          persisted |-> TRUE]

\* OmemoStore.loadSession
loadSessionRecord(st, key) ==
    LET session == st.sessions[key] IN
    IF session.type = "undefined" THEN AbsentSession
    ELSE IF session.type = "string"
         THEN IF session.text = EmptyText THEN AbsentSession ELSE session
    ELSE IF session.bytes = NoBytes THEN AbsentSession ELSE session

\* OmemoStore.saveIdentity: the store afterwards and the "key changed" answer
saveIdentity(st, identifier, identityKey) ==
    [store |-> [st EXCEPT !.identities[identifier] = identityKey],
     changed |-> st.identities[identifier] # NoBytes /\ st.identities[identifier] # identityKey]

isTrustedIdentityPinned(st, identifier, identityKey, direction) ==
    st.identities[identifier] \in {NoBytes, identityKey}

\* OmemoStore.isTrustedIdentity: no field of the store is read or written
isTrustedIdentity(st, identifier, identityKey, direction) == TRUE

IdentityKeys == {Bytes(1), Bytes(2)}
Directions == {1, 2}                  \* Direction.SENDING, Direction.RECEIVING

\* the persist callback set by initializeOmemo: export and save
persistStore(st, data, ran) == IF ran THEN exportStoreData(st) ELSE data

DataOp(op, key, record, loaded, before, answer, ran) ==
    [op |-> op, key |-> key, record |-> record, loaded |-> loaded,
     before |-> before, answer |-> answer, persisted |-> ran]

\* files an earlier run or an earlier version can have left behind
OldStoreData ==
    {[exists |-> TRUE, deviceId |-> 1, registrationId |-> 1,
      identityKeyPair |-> B64Text(1), signedPreKey |-> B64Text(1),
      preKeys |-> [k \in DataPreKeyIds |-> B64Text(1)],
      sessions |-> f, identities |-> [k \in DataPeers |-> i]] :
        f \in [DataSessKeys -> {MissingText, EmptyText, JsonText(1), B64Text(1)}],
        i \in {MissingText, B64Text(1)}}

InitData ==
    /\ omemoEnabled = FALSE
    /\ deviceId = 0
    /\ sessions = {}
    /\ SendAtRest
    /\ StoreAtRest
    /\ ConcAtRest
    /\ CacheAtRest
    /\ JoinAtRest
    /\ RoomAtRest
    /\ FanAtRest
    /\ AcctAtRest
    /\ ReconAtRest
    /\ IqAtRest
    /\ store = NoStore
    /\ storeData \in {NoStoreData} \cup OldStoreData
    /\ lastDataOp = NoDataOp

OutsideData == <<varsShared, varsSend, varsStore, varsConc, varsCache, varsJoin, varsRoom, varsFan, varsAcct, varsRecon, varsIq>>

\* initializeOmemo: store.initialize(existingData), then the initial save
InitializeData ==
    /\ ~store.initialized
    /\ \E d \in 1..MaxDataDev :
        /\ store' = IF storeData.exists THEN loadFromData(storeData) ELSE generateIdentity(d)
        /\ storeData' = exportStoreData(store')
        /\ lastDataOp' = DataOp("initialize", "", NullRecord, storeData, store, FALSE, TRUE)
    /\ UNCHANGED OutsideData

\* the process ends; the file stays
RestartData ==
    /\ store.initialized
    /\ store' = NoStore
    /\ lastDataOp' = NoDataOp
    /\ UNCHANGED <<storeData, OutsideData>>

StoreSessionData ==
    /\ store.initialized
    /\ \E key \in DataSessKeys, record \in RecordInputs :
        LET r == storeSessionRecord(store, key, record) IN
        /\ store' = r.store
        /\ storeData' = persistStore(r.store, storeData, r.persisted)
        /\ lastDataOp' = DataOp("storeSession", key, record, NoStoreData, store, FALSE, r.persisted)
    /\ UNCHANGED OutsideData

SaveIdentityData ==
    /\ store.initialized
    /\ \E identifier \in DataPeers, identityKey \in IdentityKeys :
        LET r == saveIdentity(store, identifier, identityKey) IN
        /\ store' = r.store
        /\ storeData' = persistStore(r.store, storeData, TRUE)
        /\ lastDataOp' = DataOp("saveIdentity", identifier, BufferSession(identityKey),
                                NoStoreData, store, r.changed, TRUE)
    /\ UNCHANGED OutsideData

IsTrustedIdentityData ==
    /\ store.initialized
    /\ \E identifier \in DataPeers, identityKey \in IdentityKeys, direction \in Directions :
        /\ lastDataOp' = DataOp("isTrustedIdentity", identifier, BufferSession(identityKey),
                                NoStoreData, store,
                                isTrustedIdentity(store, identifier, identityKey, direction),
                                FALSE)
    /\ UNCHANGED <<store, storeData, OutsideData>>

NextData ==
    \/ InitializeData
    \/ RestartData
    \/ StoreSessionData
    \/ SaveIdentityData
    \/ IsTrustedIdentityData

SpecData == InitData /\ [][NextData]_vars

EmptyOrInvalid(record) ==
    \/ record.type \in {"null", "uncopyable", "other"}
    \/ record.type \in {"string", "boxed"} /\ record.text = EmptyText
    \/ record.type \in {"buffer", "view", "foreign"} /\ record.bytes = NoBytes

\* C22: storeSession with an empty record or one that is not a text or a
\* byte array leaves every session of the store as it was, the one under
\* that key included, and does not persist.
C22_EmptyStoreIsNoOp ==
    (lastDataOp.op = "storeSession" /\ EmptyOrInvalid(lastDataOp.record)) =>
        /\ store = lastDataOp.before
        /\ ~lastDataOp.persisted

\* an empty record arrived for a key that holds a session, which is still there
C22_Witness ==
    /\ lastDataOp.op = "storeSession"
    /\ EmptyOrInvalid(lastDataOp.record)
    /\ store.sessions[lastDataOp.key] # AbsentSession

C26_TrustCheckSavesKey ==
    lastDataOp.op = "isTrustedIdentity" =>
        store.identities[lastDataOp.key] = lastDataOp.record.bytes

\* C27: isTrustedIdentity answers true for every peer, key and direction, in
\* every state of the store.
C27_BlindTrust ==
    lastDataOp.op = "isTrustedIdentity" => lastDataOp.answer

\* the question was asked about a key other than the one saved for the peer
C27_Witness ==
    /\ lastDataOp.op = "isTrustedIdentity"
    /\ store.identities[lastDataOp.key] \notin {NoBytes, lastDataOp.record.bytes}
    /\ lastDataOp.answer

\* ================================================== SpecFan: the key fan-out
\* encryptOmemoMessage for the peer, from any set of sessions, with every
\* answer the server can give for the device lists and the bundles.

InitFan ==
    /\ omemoEnabled = TRUE
    /\ deviceId \in OwnDevIds
    /\ sessions \in SUBSET Pairs
    /\ SendAtRest
    /\ StoreAtRest
    /\ ConcAtRest
    /\ CacheAtRest
    /\ JoinAtRest
    /\ RoomAtRest
    /\ DataAtRest
    /\ FanAtRest
    /\ AcctAtRest
    /\ ReconAtRest
    /\ IqAtRest

OutsideFan == <<omemoEnabled, deviceId, now, activeClient, omemoInit, room, produced, sent, lastOp,
                varsStore, varsConc, lastRead, varsJoin, varsRoom, varsData, varsAcct, varsRecon, varsIq>>

EncryptDirect ==
    LET keys == {PeerJid, SelfAlias} IN
    \E f \in FetchEnv(keys) : \E o \in OutcomeEnv(sessions, f, keys) :
        LET r == encryptOmemoMessage(deviceCache, sessions, PeerJid, Text, f, o) IN
        /\ deviceCache' = r.cache
        /\ sessions' = r.sessions
        /\ lastFan' = [called |-> TRUE, before |-> sessions, lists |-> f,
                       outcomes |-> o, element |-> r.element]
        /\ UNCHANGED <<lastPush, OutsideFan>>

\* the server notifies a change of the account's own device-list node: the
\* message comes from the account's bare JID (parsePepEvent: stanza.attrs.from)
OwnDeviceListPepEvent ==
    \E devices \in SUBSET OwnDevIds :
        /\ deviceCache' = handleDeviceListPepEvent(deviceCache, SelfJid, TRUE, devices)
        /\ lastPush' = [seen |-> TRUE, devices |-> devices, at |-> now]
        /\ lastFan' = NoFan
        /\ UNCHANGED <<sessions, OutsideFan>>

NextFan ==
    \/ EncryptDirect
    \/ OwnDeviceListPepEvent

SpecFan == InitFan /\ [][NextFan]_vars

\* the devices the last fan-out went over
FanTargets ==
    IF lastFan.lists[PeerJid] = {} THEN {}
    ELSE ({PeerJid} \X lastFan.lists[PeerJid])
         \cup ({SelfJid} \X (lastFan.lists[SelfAlias] \ {deviceId}))

\* the devices without a session for which no bundle could be had
FanSkipped == {p \in FanTargets : p \notin lastFan.before /\ lastFan.outcomes[p] = "fail"}

FanKeyOf(p) == [side |-> IF p[1] = SelfJid THEN "own" ELSE "rcpt", rid |-> p[2]]

\* C24: a device of the fan-out whose bundle fetch returns none gets no key
\* element and no session, and every other device of the fan-out for which
\* the key encryption works still gets its key element in the element that
\* is returned.
C24_MissingBundleSkipped ==
    lastFan.called =>
        /\ \A p \in FanSkipped :
                /\ FanKeyOf(p) \notin lastFan.element.keys
                /\ p \notin sessions
        /\ \A p \in FanTargets \ FanSkipped :
                lastFan.outcomes[p] = "ok" =>
                    /\ lastFan.element # NoElement
                    /\ FanKeyOf(p) \in lastFan.element.keys

\* C32: after a notification for the account's own device-list node, an
\* encryption within the cache TTL takes exactly the notified set as the own
\* device list of its fan-out.
C32_OwnPushUsed ==
    (/\ lastPush.seen /\ lastPush.devices # {}
     /\ now - lastPush.at <= CACHE_TTL_MS
     /\ lastFan.called /\ lastFan.lists[PeerJid] # {}) =>
        lastFan.lists[SelfAlias] = lastPush.devices

\* one device was skipped for its missing bundle and another got its key
C24_Witness ==
    /\ lastFan.called
    /\ FanSkipped # {}
    /\ \E p \in FanTargets \ FanSkipped : FanKeyOf(p) \in lastFan.element.keys

\* ===================================================== SpecAcct: two accounts
\* Two accounts of one process: the snapshot file they share, and the device
\* cache and room states, whose keys start with the account id.  A snapshot
\* is "none", "old" (written by an earlier run) or "new" (written by this
\* one); a key is the pair of the account id and the JID.

loadOmemoFileStore(file, readOk) ==
    IF readOk THEN file ELSE [a \in Accounts |-> "none"]

saveOmemoFileStore(file, fileStore, writeOk) == IF writeOk THEN fileStore ELSE file

\* saveOmemoStoreData(accountId, data): read the file, set the account, write
saveAccountData(file, accountId, data, readOk, writeOk) ==
    LET fileStore == loadOmemoFileStore(file, readOk)
    IN  saveOmemoFileStore(file, [fileStore EXCEPT ![accountId] = data], writeOk)

\* deleting the keys that start with "<accountId>:"
clearAccountKeys(keys, accountId) == {k \in keys : k[1] # accountId}

InitAcct ==
    /\ omemoEnabled = FALSE
    /\ deviceId = 0
    /\ sessions = {}
    /\ SendAtRest
    /\ StoreAtRest
    /\ ConcAtRest
    /\ CacheAtRest
    /\ JoinAtRest
    /\ RoomAtRest
    /\ DataAtRest
    /\ FanAtRest
    /\ fileAccounts \in [Accounts -> {"none", "old"}]
    /\ acctStores = {}
    /\ acctCache = {}
    /\ acctRooms = {}
    /\ lastAcctOp = NoAcctOp
    /\ ReconAtRest
    /\ IqAtRest

OutsideAcct == <<varsShared, varsSend, varsStore, varsConc, varsCache, varsJoin, varsRoom,
                 varsData, varsFan, varsRecon, varsIq>>

\* initializeOmemo(accountId): load or generate, then the initial save
InitializeAccount ==
    \E a \in Accounts \ acctStores, readOk \in BOOLEAN, writeOk \in BOOLEAN :
        /\ acctStores' = acctStores \cup {a}
        /\ fileAccounts' = saveAccountData(fileAccounts, a, "new", readOk, writeOk)
        /\ lastAcctOp' = [op |-> "initialize", account |-> a]
        /\ UNCHANGED <<acctCache, acctRooms, OutsideAcct>>

\* the persist callback of the account's store
PersistAccount ==
    \E a \in acctStores, readOk \in BOOLEAN, writeOk \in BOOLEAN :
        /\ fileAccounts' = saveAccountData(fileAccounts, a, "new", readOk, writeOk)
        /\ lastAcctOp' = [op |-> "persist", account |-> a]
        /\ UNCHANGED <<acctStores, acctCache, acctRooms, OutsideAcct>>

\* shutdownOmemo(accountId)
ShutdownAccount ==
    \E a \in Accounts, readOk \in BOOLEAN, writeOk \in BOOLEAN :
        /\ fileAccounts' = IF a \in acctStores
                           THEN saveAccountData(fileAccounts, a, "new", readOk, writeOk)
                           ELSE fileAccounts
        /\ acctCache' = clearAccountKeys(acctCache, a)
        /\ acctRooms' = clearAccountKeys(acctRooms, a)
        /\ acctStores' = acctStores \ {a}
        /\ lastAcctOp' = [op |-> "shutdown", account |-> a]
        /\ UNCHANGED OutsideAcct

\* handleDeviceListPepEvent(accountId, from, items) with a list of devices
AccountPepEvent ==
    \E a \in Accounts :
        /\ acctCache' = acctCache \cup {<<a, PeerJid>>}
        /\ lastAcctOp' = [op |-> "push", account |-> a]
        /\ UNCHANGED <<fileAccounts, acctStores, acctRooms, OutsideAcct>>

\* handleMucPresence(stanza, accountId)
AccountPresence ==
    \E a \in Accounts :
        /\ acctRooms' = acctRooms \cup {<<a, RoomJid>>}
        /\ lastAcctOp' = [op |-> "presence", account |-> a]
        /\ UNCHANGED <<fileAccounts, acctStores, acctCache, OutsideAcct>>

NextAcct ==
    \/ InitializeAccount
    \/ PersistAccount
    \/ ShutdownAccount
    \/ AccountPepEvent
    \/ AccountPresence

SpecAcct == InitAcct /\ [][NextAcct]_vars

\* C25: an operation for one account leaves the snapshot, the device-cache
\* entries and the room states of every other account as they were.
C25_AccountsDisjoint ==
    [][\A a \in Accounts :
          lastAcctOp'.account # a =>
              /\ fileAccounts'[a] = fileAccounts[a]
              /\ {k \in acctCache' : k[1] = a} = {k \in acctCache : k[1] = a}
              /\ {k \in acctRooms' : k[1] = a} = {k \in acctRooms : k[1] = a}]_vars

\* ==================================================== SpecRecon: reconnection
\* startXmppConnection, the offline handler and the reconnect timer of one
\* account.

RECONNECT_BASE_DELAY_MS == 1000
RECONNECT_MAX_DELAY_MS == 60000
RECONNECT_MAX_ATTEMPTS == 20
MaxSeries == 40        \* reconnect attempts followed in one series of failures
MaxStarts == 42        \* calls of startXmppConnection followed in one run

Min(a, b) == IF a < b THEN a ELSE b

initReconnectState ==
    [exists |-> TRUE, attempts |-> 0, nextDelayMs |-> RECONNECT_BASE_DELAY_MS,
     aborted |-> FALSE]

\* clearReconnectState: reconnectStates.delete(accountId)
clearReconnectState == NoReconnectState

abortReconnect(state) == IF state.exists THEN [state EXCEPT !.aborted = TRUE] ELSE state

\* scheduleReconnect: the state afterwards, whether a timer was set, its delay
scheduleReconnect(state) ==
    IF ~state.exists \/ state.aborted
    THEN [state |-> state, timer |-> FALSE, delay |-> 0]
    ELSE IF state.attempts >= RECONNECT_MAX_ATTEMPTS
    THEN [state |-> state, timer |-> FALSE, delay |-> 0]
    ELSE [state |-> [state EXCEPT !.attempts = state.attempts + 1,
                                  !.nextDelayMs = Min(state.nextDelayMs * 2,
                                                      RECONNECT_MAX_DELAY_MS)],
          timer |-> TRUE,
          delay |-> Min(state.nextDelayMs, RECONNECT_MAX_DELAY_MS)]

\* startXmppConnection from xmpp.start() on: a start that works clears the
\* state, one that fails schedules a reconnect; in both cases the promise
\* that is returned calls initReconnectState
startXmppConnection(state, startOk) ==
    LET r == IF startOk
             THEN [state |-> clearReconnectState, timer |-> FALSE, delay |-> 0]
             ELSE scheduleReconnect(state)
    IN  [state |-> initReconnectState, timer |-> r.timer, delay |-> r.delay]

InitRecon ==
    /\ omemoEnabled = FALSE
    /\ deviceId = 0
    /\ sessions = {}
    /\ now = 0
    /\ activeClient = FALSE        \* no client before the gateway starts the account
    /\ omemoInit = "pending"
    /\ deviceCache = [k \in CacheKeys |-> NoEntry]
    /\ room = NoRoom
    /\ produced = <<>>
    /\ sent = <<>>
    /\ lastOp = NoOp
    /\ StoreAtRest
    /\ ConcAtRest
    /\ CacheAtRest
    /\ JoinAtRest
    /\ RoomAtRest
    /\ DataAtRest
    /\ FanAtRest
    /\ AcctAtRest
    /\ ReconAtRest
    /\ IqAtRest

OutsideRecon == <<varsShared, now, omemoInit, deviceCache, room, produced, sent, lastOp,
                  varsStore, varsConc, varsCache, varsJoin, varsRoom,
                  varsData, varsFan, varsAcct, varsIq>>

\* what a call of startXmppConnection leaves behind: the new client is in
\* activeClients whether or not it starts, and the promise that is returned
\* adds one more abort listener
Connected(r, startOk) ==
    /\ reconnectState' = r.state
    /\ timerDelay' = r.delay
    /\ connection' = IF startOk THEN "online" ELSE IF r.timer THEN "waiting" ELSE "down"
    /\ series' = IF startOk THEN 0 ELSE IF r.timer THEN series + 1 ELSE series
    /\ activeClient' = TRUE
    /\ listeners' = listeners + 1
    /\ lastStart' = IF startOk THEN "ok" ELSE "failed"

\* the gateway starts the account
StartAccount ==
    /\ connection = "idle"
    /\ \E startOk \in BOOLEAN : Connected(startXmppConnection(reconnectState, startOk), startOk)
    /\ UNCHANGED <<abortFired, OutsideRecon>>

\* the "offline" handler
ConnectionLost ==
    /\ connection = "online"
    /\ LET r == IF reconnectState.aborted
                THEN [state |-> reconnectState, timer |-> FALSE, delay |-> 0]
                ELSE scheduleReconnect(reconnectState)
       IN  /\ reconnectState' = r.state
           /\ timerDelay' = r.delay
           /\ connection' = IF r.timer THEN "waiting" ELSE "down"
           /\ series' = IF r.timer THEN series + 1 ELSE series
    /\ UNCHANGED <<activeClient, listeners, abortFired, lastStart, OutsideRecon>>

\* the reconnect timer fires
ReconnectTimer ==
    /\ connection = "waiting"
    /\ series < MaxSeries
    /\ listeners < MaxStarts
    /\ IF reconnectState.aborted
       THEN /\ connection' = "down"
            /\ timerDelay' = 0
            /\ UNCHANGED <<reconnectState, series, activeClient, listeners, lastStart>>
       ELSE \E startOk \in BOOLEAN :
                Connected(startXmppConnection(reconnectState, startOk), startOk)
    /\ UNCHANGED <<abortFired, OutsideRecon>>

\* The abort signal fires: the listeners run in the order they were added.
\* The cleanup of the first call finds the state not aborted: it aborts the
\* reconnection, stops the client of its own call and deletes the entry of
\* activeClients.  The cleanup of every later call finds the state aborted
\* and returns, so the client of the latest call is stopped only when it is
\* the first (n = 1).
cleanup(state, conn, n) ==
    [state |-> abortReconnect(state), active |-> FALSE,
     connection |-> IF conn = "online" /\ n = 1 THEN "down" ELSE conn]

AbortAccount ==
    /\ connection # "idle"
    /\ ~abortFired
    /\ LET r == cleanup(reconnectState, connection, listeners) IN
        /\ reconnectState' = r.state
        /\ activeClient' = r.active
        /\ connection' = r.connection
    /\ abortFired' = TRUE
    /\ UNCHANGED <<timerDelay, series, listeners, lastStart, OutsideRecon>>

NextRecon ==
    \/ StartAccount
    \/ ConnectionLost
    \/ ReconnectTimer
    \/ AbortAccount

SpecRecon == InitRecon /\ [][NextRecon]_vars

\* The program's own steps are taken when they can be: a timer that is set
\* fires, the gateway starts the account.  Losing the connection and the
\* abort are up to the environment.
SpecReconLive ==
    SpecRecon /\ WF_vars(StartAccount) /\ WF_vars(ReconnectTimer)

\* C28: the n-th reconnect attempt in a row is scheduled with a delay of
\* min(1 s * 2^(n-1), 60 s), and no more than 20 attempts are scheduled
\* without the connection having come online in between.
C28_ExponentialBackoff ==
    /\ series <= RECONNECT_MAX_ATTEMPTS
    /\ (connection = "waiting" /\ series <= RECONNECT_MAX_ATTEMPTS) =>
            timerDelay = Min(RECONNECT_BASE_DELAY_MS * 2 ^ (series - 1), RECONNECT_MAX_DELAY_MS)

\* C37: once the abort signal has fired the current connection is stopped,
\* the account has no entry in the active clients, and no call of
\* startXmppConnection starts a new connection afterwards.
C37_StoppedAfterAbort ==
    [][abortFired' =>
          /\ connection' # "online"
          /\ ~activeClient'
          /\ abortFired => listeners' = listeners]_vars

\* C38: when the first connection attempt of the account has failed and the
\* account is not aborted, a reconnect attempt is eventually scheduled.
C38_ReconnectAfterFirstFailure ==
    (listeners = 1 /\ lastStart = "failed" /\ ~abortFired)
        ~> (connection = "waiting" \/ abortFired)

\* ===================================================================
\* Publish-subscribe queries: sendIq and waitForIq
\* ===================================================================

\* iq.attrs.id of the request: iqId() joins the clock and a random suffix,
\* so each call has its own
requestId(q) == q

\* waitForIq: the promise starts its timer and adds its stanza listener
waitForIq(x, t) ==
    [x EXCEPT !.listener = TRUE, !.timer = TRUE, !.startedAt = t, !.promise = "pending"]

\* cleanup of waitForIq: clearTimeout and client.off
waitForIqCleanup(x) == [x EXCEPT !.listener = FALSE, !.timer = FALSE]

\* sendIq goes on after `await responsePromise` once the promise has settled
awaitResponse(x) ==
    IF x.promise = "resolved"
    THEN [x EXCEPT !.pc = "returned", !.outcome = "response", !.settles = @ + 1]
    ELSE IF x.promise = "rejected"
    THEN [x EXCEPT !.pc = "threw", !.outcome = "timeout", !.settles = @ + 1]
    ELSE [x EXCEPT !.pc = "awaiting"]

\* handler: the listener of one waitForIq call sees a stanza
handler(x, q, isIq, id) ==
    IF x.listener /\ isIq /\ id = requestId(q)
    THEN LET y == [waitForIqCleanup(x) EXCEPT !.promise = "resolved", !.response = id]
         IN  IF x.pc = "awaiting" THEN awaitResponse(y) ELSE y
    ELSE x

\* the setTimeout callback of one waitForIq call
timeout(x) ==
    LET y == [waitForIqCleanup(x) EXCEPT !.promise = "rejected"]
    IN  IF x.pc = "awaiting" THEN awaitResponse(y) ELSE y

\* sendIq up to `await client.send(iq)`
sendIq(x, hasClient, t) ==
    IF ~hasClient
    THEN [x EXCEPT !.pc = "threw", !.outcome = "notConnected", !.settles = @ + 1]
    ELSE [waitForIq(x, t) EXCEPT !.pc = "sending"]

\* sendIq after client.send(iq) has settled
sendSettled(x, sendOk) ==
    IF sendOk
    THEN awaitResponse(x)
    ELSE [x EXCEPT !.pc = "threw", !.outcome = "sendFailed", !.settles = @ + 1]

InitIq ==
    /\ omemoEnabled = FALSE
    /\ deviceId = 0
    /\ sessions = {}
    /\ SendAtRest
    /\ StoreAtRest
    /\ ConcAtRest
    /\ CacheAtRest
    /\ JoinAtRest
    /\ RoomAtRest
    /\ DataAtRest
    /\ FanAtRest
    /\ AcctAtRest
    /\ ReconAtRest
    /\ IqAtRest

OutsideIq == <<varsShared, varsSend, varsStore, varsConc, varsCache, varsJoin, varsRoom,
               varsData, varsFan, varsAcct, varsRecon>>

SendIq ==
    \E q \in QueryIds, hasClient \in BOOLEAN :
        /\ queries[q].pc = "none"
        /\ queries' = [queries EXCEPT ![q] = sendIq(@, hasClient, iqTime)]
        /\ UNCHANGED <<iqTime, OutsideIq>>

ClientSendSettles ==
    \E q \in QueryIds, sendOk \in BOOLEAN :
        /\ queries[q].pc = "sending"
        /\ queries' = [queries EXCEPT ![q] = sendSettled(@, sendOk)]
        /\ UNCHANGED <<iqTime, OutsideIq>>

\* client.emit("stanza"): every listener that is registered sees the stanza
IqStanza ==
    \E id \in StanzaIds, isIq \in BOOLEAN :
        /\ \E q \in QueryIds : queries[q].listener
        /\ queries' = [q \in QueryIds |-> handler(queries[q], q, isIq, id)]
        /\ UNCHANGED <<iqTime, OutsideIq>>

IqTimerDue(q) == queries[q].timer /\ iqTime - queries[q].startedAt >= IQ_TIMEOUT_MS

IqTimeout ==
    \E q \in QueryIds :
        /\ IqTimerDue(q)
        /\ queries' = [queries EXCEPT ![q] = timeout(@)]
        /\ UNCHANGED <<iqTime, OutsideIq>>

\* time passes; a timer that is due fires before the clock moves on
IqTick ==
    /\ iqTime < MaxIqTicks * (IQ_TIMEOUT_MS \div 3)
    /\ \A q \in QueryIds : ~IqTimerDue(q)
    /\ iqTime' = iqTime + (IQ_TIMEOUT_MS \div 3)
    /\ UNCHANGED <<queries, OutsideIq>>

NextIq ==
    \/ SendIq
    \/ ClientSendSettles
    \/ IqStanza
    \/ IqTimeout
    \/ IqTick

SpecIq == InitIq /\ [][NextIq]_vars

QuerySettled(q) == queries[q].pc \in {"returned", "threw"}

\* C39: every query settles exactly once, with the response stanza whose id
\* is the request id or with a timeout failure 30 seconds after it started,
\* and once it has settled its stanza listener and its timer are gone, also
\* when sending the request failed
C39_QuerySettlesOnceAndCleansUp ==
    \A q \in QueryIds :
        /\ queries[q].settles <= 1
        /\ queries[q].outcome = "response" => queries[q].response = requestId(q)
        /\ queries[q].outcome = "timeout" =>
               iqTime - queries[q].startedAt >= IQ_TIMEOUT_MS
        /\ QuerySettled(q) => ~queries[q].listener /\ ~queries[q].timer
====
